---- MODULE Spec2Model ----
(***************************************************************************)
(* Model of the test-orchestration core of the MGrant Playwright suite:    *)
(*   - TestRunner  (core/TestRunner.js)  driven by the continuous-flow test *)
(*   - AuthManager (core/AuthManager.js) driven through its public methods  *)
(*   - the shared authentication state of config/global-setup.js and of    *)
(*     fixtures/shared-auth-hooks.js                                        *)
(* Spec     : one run of tests/continuous-flow.test.js over a TestRunner.  *)
(* SpecAuth : calls of the AuthManager methods against one page session.   *)
(* SpecShared : calls of the global shared-state helpers in one process.   *)
(***************************************************************************)
EXTENDS Integers, Sequences, FiniteSets, TLC

(***************************************************************************)
(* Bounds of the model                                                      *)
(***************************************************************************)
MaxModules == 3
\* Calls of logStep and recordResult the modules of one run make in total.
MaxCalls == 1
MaxClock == 1
\* Calls of validateSharedAuthState on one shared state object.
MaxValidations == 1
\* Calls of recordResult on one runner whose operations are called freely.
MaxRecords == 2

Null == "null"

(***************************************************************************)
(* Configuration manifest (test-config.json)                                *)
(***************************************************************************)
\* A test file path, split at "/" as extractModuleName does.
TestFiles ==
  { <<"tests", "Authentication", "Login.test.js">>,
    <<"tests", "Organisation", "Organisation.test.js">> }

ModuleNames == {"Authentication", "Organisation"}

\* moduleSettings as the README gives them: Authentication is critical and
\* depends on nothing, Organisation is high and depends on Authentication.
\* With the arrays of both orders below, a sort by priority differs from the
\* array order and a dependency can come before or after its dependent.
ModuleSettings ==
  { [m \in ModuleNames |->
       IF m = "Authentication"
         THEN [priority |-> "critical", dependencies |-> << >>]
         ELSE [priority |-> "high", dependencies |-> <<"Authentication">>]] }

\* executionProfiles as the README gives them.
ExecutionProfiles ==
  [p \in {"full", "smoke"} |->
     IF p = "full"
       THEN [includeAll |-> TRUE, testPrecedence |-> << >>]
       ELSE [includeAll |-> FALSE,
             testPrecedence |-> << <<"tests", "Authentication", "Login.test.js">> >>]]

SeqsUpTo(S, n) == UNION { [1..k -> S] : k \in 0..n }

Manifests ==
  { [testPrecedence |-> tp, moduleSettings |-> ms,
     executionProfiles |-> ExecutionProfiles] :
      tp \in SeqsUpTo(TestFiles, MaxModules), ms \in ModuleSettings }

\* TestRunner.extractModuleName: parent directory name of the file path.
extractModuleName(testFilePath) == testFilePath[Len(testFilePath) - 1]

(***************************************************************************)
(* Test names and their classification                                      *)
(***************************************************************************)
\* A test name is the sequence of its words; includes(phrase) is containment
\* of the phrase. Each module records the test cases of its own file.
TestNamesOf(moduleName) ==
  IF moduleName = "Authentication"
    THEN { <<"TC002:", "Successful", "Login", "Flow">> }
  ELSE { <<"TC005:", "Organisation", "Page", "Access", "Validation">> }

includes(testName, phrase) ==
  \E i \in 1..(Len(testName) - Len(phrase) + 1) :
     \A j \in 1..Len(phrase) : testName[i + j - 1] = phrase[j]

extractModuleFromTestName(testName) ==
  IF includes(testName, <<"Login">>) \/ includes(testName, <<"Authentication">>)
       \/ includes(testName, <<"Session", "Persistence">>)
    THEN "Authentication"
  ELSE IF includes(testName, <<"Organisation">>) THEN "Organisation"
  ELSE IF includes(testName, <<"Project">>) THEN "Projects"
  ELSE IF includes(testName, <<"Masters">>) \/ includes(testName, <<"Beneficiary">>)
    THEN "Masters"
  ELSE IF includes(testName, <<"CSR", "Focus", "Area">>) \/ includes(testName, <<"FocusArea">>)
    THEN "Masters-FocusArea"
  ELSE "Unknown"

\* SharedModuleData: keys and values the modules exchange.
DataKeys == {"selectedOrganisation"}
DataValues == {"OrgA", "OrgB"}

\* The path recordResult builds for a screenshot of testName.
screenshotPath(testName) == <<"test-results", "screenshots">> \o testName

(***************************************************************************)
(* Errors                                                                   *)
(***************************************************************************)
NoError == [kind |-> "none", pos |-> 0]
Err(kind, pos) == [kind |-> kind, pos |-> pos]

NoRecord ==
  [called |-> FALSE, status |-> "none", attempted |-> FALSE, captureThrew |-> FALSE,
   raised |-> FALSE, returned |-> << >>, logBefore |-> << >>]

(***************************************************************************)
(* State                                                                    *)
(***************************************************************************)
VARIABLES
  \* ---- environment of the run
  manifest,        \* what test-config.json holds
  executionProfile,\* EXECUTION_PROFILE in the environment of the test process
  configFile,      \* "ok" | "missing" | "malformed"
  openContexts,    \* browser contexts currently open
  openPages,       \* pages currently open
  contextsOpened,  \* number of contexts the runner has opened so far
  pagesOpened,     \* number of pages the runner has opened so far
  closeAttempts,   \* handles on which close() has been called
  \* ---- TestRunner fields
  config,          \* this.config: << >> is null, <<cfg>> once loaded
  context,         \* this.context (0 is null)
  page,            \* this.page (0 is null)
  moduleData,      \* this.moduleData
  lastWritten,     \* per key, the value a module wrote last (Null: never written)
  running,         \* positions of the entry functions called and not yet settled
  pending,         \* recordResult calls waiting for their screenshot: call number, result
  logOrder,        \* per entry of testResults, the number of the recordResult call it is from
  testResults,     \* this.testResults
  currentStep,     \* this.currentStep
  isAuthenticated, \* this.isAuthenticated
  \* ---- position of the continuous-flow test and of executeAllModules
  pc,
  idx,             \* loop variable i of executeAllModules, 1-based
  thrown,          \* error propagating out of the try block of the test
  allModules,      \* outcome of executeAllModules: "none" | "resolved" | "rejected"
  allModulesError, \* the error executeAllModules rejected with
  moduleError,     \* the error the running entry function threw
  resultsAtThrow,  \* the result log at the moment the entry function threw
  moduleCalls,     \* log of executeModule calls
  lastRecord,      \* observation of the last recordResult call
  stats,           \* << >>, or <<s>> once getStats returned s
  testStatus,      \* "running" | "passed" | "failed"
  exitCode         \* exit code of the orchestrator process (-1 while running)

runnerVars ==
  << manifest, executionProfile, configFile, openContexts, openPages,
     contextsOpened, pagesOpened,
     closeAttempts, config, context, page, moduleData, lastWritten,
                  pending, logOrder, running, testResults,
     currentStep, isAuthenticated, pc, idx, thrown, allModules, allModulesError, moduleError,
     resultsAtThrow, moduleCalls, lastRecord, stats, testStatus, exitCode >>


VARIABLES
  authState,   \* AuthManager.authState
  authFile,    \* contents of auth/mgrant-session.json
  pg,          \* the page session: cookies and web storage of the browser
  clock,       \* the instant new Date() returns
  calls,       \* the AuthManager methods the last operation ran, in return order
  preAuth      \* authState.isAuthenticated before the last operation

authVars == << authState, authFile, pg, clock, calls, preAuth >>

VARIABLES
  sharedAuthState,  \* global.sharedAuthState: << >> is undefined, <<s>> the object s
  sharedCall        \* the last global helper called, the state it found, its result

sharedVars == << sharedAuthState, sharedCall >>

VARIABLES
  \* ---- DynamicTestOrchestrator
  dryRun,          \* options.dryRun
  dynTestFiles,    \* this.testFiles, as discoverTestFiles leaves it
  executionPlan,   \* this.executionPlan
  phaseIdx,        \* i of the loop over the phases
  testIdx,         \* position in phase.tests of the test executed next
  results,         \* the results array of executeTests
  isLoggedIn,      \* this.sharedState.isLoggedIn
  dynPc            \* "start" | "run" | "done"

dynVars == << dryRun, dynTestFiles, executionPlan, phaseIdx, testIdx, results,
              isLoggedIn, dynPc >>

VARIABLES
  \* ---- TestOrchestrator (test-orchestrator CLI)
  args,            \* process.argv.slice(2), as the flags main looks for
  options,         \* the options main builds: << >> before it has
  orchConfig,      \* this.config of the orchestrator: << >> is null
  launched,        \* what execSync was asked to run, in order
  cliError,        \* the error executeTests threw
  cliPc,           \* "main" | "executeTests" | "exit" | "exited"
  cliExitCode      \* the code given to process.exit (-1 before)

cliVars == << args, options, orchConfig, launched, cliError, cliPc, cliExitCode >>

orchVars == << dynVars, cliVars >>

vars == << runnerVars, authVars, sharedVars, orchVars >>

(***************************************************************************)
(* TestRunner: constructor and the state before the test starts             *)
(***************************************************************************)
InitRunner ==
  /\ manifest \in Manifests
  /\ executionProfile \in DOMAIN ExecutionProfiles
  /\ configFile \in {"ok", "missing", "malformed"}
  /\ openContexts = {}
  /\ openPages = {}
  /\ contextsOpened = 0
  /\ pagesOpened = 0
  /\ closeAttempts = {}
  /\ config = << >>
  /\ context = 0
  /\ page = 0
  /\ moduleData = [k \in DataKeys |-> Null]
  /\ lastWritten = [k \in DataKeys |-> Null]
  /\ running = {}
  /\ pending = {}
  /\ logOrder = << >>
  /\ testResults = << >>
  /\ currentStep = 0
  /\ isAuthenticated = FALSE
  /\ pc = "loadConfiguration"
  /\ idx = 1
  /\ thrown = NoError
  /\ allModules = "none"
  /\ allModulesError = NoError
  /\ moduleError = NoError
  /\ resultsAtThrow = << >>
  /\ moduleCalls = << >>
  /\ lastRecord = NoRecord
  /\ stats = << >>
  /\ testStatus = "running"
  /\ exitCode = -1

(***************************************************************************)
(* TestRunner operations                                                    *)
(***************************************************************************)
\* The loaded configuration (only read where this.config is non-null).
cfg == config[1]

\* (variant) The modules sorted by priority, critical ones first.
executionOrderByPriority(c) ==
  SelectSeq(c.testPrecedence,
            LAMBDA f : c.moduleSettings[extractModuleName(f)].priority = "critical")
  \o SelectSeq(c.testPrecedence,
               LAMBDA f : c.moduleSettings[extractModuleName(f)].priority # "critical")

\* The order in which executeAllModules walks the modules: the array itself.
executionOrder(c) == c.testPrecedence

\* (variant) A page of its own for every module.
pageForModuleFresh == page + idx

\* The page handle executeModule hands to the entry function: this.page.
pageForModule == page

\* (variant) Each module is handed a new, empty map.
dataForModuleFresh == [k \in DataKeys |-> Null]

\* The map executeModule hands to the entry function: this.moduleData itself.
dataForModule == moduleData

\* (variant) The flag raised after whichever module ran first.
authFlagAfterAny(moduleName, flag) == TRUE

\* executeModule, after the entry function returned: the flag for later modules.
authFlagAfter(moduleName, flag) == IF moduleName = "Authentication" THEN TRUE ELSE flag

\* The catch blocks of executeModule and executeAllModules rethrow the error.
rethrow(error) == error

\* An error leaves executeAllModules and reaches the catch block of the test.
Reject(e) ==
  /\ allModules' = "rejected"
  /\ allModulesError' = e
  /\ thrown' = e
  /\ pc' = "cleanup"

\* The for loop of executeAllModules going on at index next; after the last
\* module showExecutionSummary only prints, and the promise resolves.
LoopAdvance(next) ==
  /\ idx' = next
  /\ IF next > Len(executionOrder(cfg))
       THEN allModules' = "resolved" /\ pc' = "getStats"
       ELSE pc' = "loop" /\ UNCHANGED allModules
  /\ UNCHANGED << allModulesError, thrown >>

LoadConfiguration ==
  /\ pc = "loadConfiguration"
  /\ IF configFile = "missing"
       THEN thrown' = Err("ConfigNotFound", 0) /\ pc' = "cleanup" /\ UNCHANGED config
     ELSE IF configFile = "malformed"
       THEN thrown' = Err("ConfigParse", 0) /\ pc' = "cleanup" /\ UNCHANGED config
     ELSE config' = <<manifest>> /\ pc' = "initializeBrowserSession" /\ UNCHANGED thrown
  /\ UNCHANGED << authVars, sharedVars, orchVars >>
  /\ UNCHANGED << manifest, executionProfile, configFile, openContexts, openPages, contextsOpened,
                  pagesOpened, closeAttempts, context, page, moduleData, lastWritten,
                  pending, logOrder, running, testResults,
                  currentStep, isAuthenticated, idx, allModules, allModulesError,
                  moduleError, resultsAtThrow, moduleCalls, lastRecord, stats,
                  testStatus, exitCode >>

InitializeBrowserSession ==
  /\ pc = "initializeBrowserSession"
  /\ \E newContextThrows \in BOOLEAN, newPageThrows \in BOOLEAN :
       IF newContextThrows
         THEN /\ thrown' = Err("NewContextFailed", 0)
              /\ pc' = "cleanup"
              /\ UNCHANGED << context, page, openContexts, openPages, contextsOpened,
                              pagesOpened >>
         ELSE /\ context' = contextsOpened + 1
              /\ contextsOpened' = contextsOpened + 1
              /\ openContexts' = openContexts \cup {contextsOpened + 1}
              /\ IF newPageThrows
                   THEN /\ thrown' = Err("NewPageFailed", 0)
                        /\ pc' = "cleanup"
                        /\ UNCHANGED << page, openPages, pagesOpened >>
                   ELSE /\ page' = pagesOpened + 1
                        /\ pagesOpened' = pagesOpened + 1
                        /\ openPages' = openPages \cup {pagesOpened + 1}
                        /\ pc' = "executeAllModules"
                        /\ UNCHANGED thrown
  /\ UNCHANGED << authVars, sharedVars, orchVars >>
  /\ UNCHANGED << manifest, executionProfile, configFile, closeAttempts, config, moduleData, lastWritten,
                  pending, logOrder, running, testResults,
                  currentStep, isAuthenticated, idx, allModules, allModulesError,
                  moduleError, resultsAtThrow, moduleCalls, lastRecord, stats,
                  testStatus, exitCode >>

\* executeAllModules up to its first await: the two guards and the loop entry.
ExecuteAllModules ==
  /\ pc = "executeAllModules"
  /\ IF config = << >>
       THEN Reject(Err("ConfigNotLoaded", 0)) /\ UNCHANGED idx
     ELSE IF page = 0
       THEN Reject(Err("SessionNotInitialized", 0)) /\ UNCHANGED idx
     ELSE LoopAdvance(1)
  /\ UNCHANGED << authVars, sharedVars, orchVars >>
  /\ UNCHANGED << manifest, executionProfile, configFile, openContexts, openPages, contextsOpened,
                  pagesOpened, closeAttempts, config, context, page, moduleData, lastWritten,
                  pending, logOrder, running,
                  testResults, currentStep, isAuthenticated, moduleError,
                  resultsAtThrow, moduleCalls, lastRecord, stats, testStatus, exitCode >>

\* (variant) The entry function is called and not awaited: executeModule
\* finishes and the loop goes on while the module is still running.
EntryNotAwaited ==
  /\ isAuthenticated' = authFlagAfter(extractModuleName(executionOrder(cfg)[idx]),
                                      isAuthenticated)
  /\ LoopAdvance(idx + 1)

\* await moduleExports.executeTests(...): executeModule does nothing more
\* until the promise of the entry function settles.
AwaitEntry ==
  /\ pc' = "inModule"
  /\ UNCHANGED << idx, isAuthenticated, allModules, allModulesError, thrown >>

\* What a module file exports, as executeModule tests it.
ExportKinds == {"executeTests", "executeNameTests", "none"}

\* executeModule from its start to the call of the entry function (or to its
\* end when there is nothing to call, or to the throw for a missing file).
ExecuteModule ==
  /\ pc = "loop"
  /\ \E fileExists \in BOOLEAN, exports \in ExportKinds :
       LET testFilePath == executionOrder(cfg)[idx]
           moduleName == extractModuleName(testFilePath)
           call == [pos |-> idx, file |-> testFilePath, name |-> moduleName,
                    invoked |-> fileExists /\ exports # "none",
                    page |-> IF fileExists /\ exports # "none" THEN pageForModule ELSE 0,
                    flag |-> isAuthenticated]
       IN /\ moduleCalls' = Append(moduleCalls, call)
          /\ moduleData' = IF call.invoked THEN dataForModule ELSE moduleData
          /\ running' = IF call.invoked THEN running \cup {idx} ELSE running
          /\ IF ~fileExists
               THEN /\ Reject(rethrow(rethrow(Err("ModuleFileNotFound", idx))))
                    /\ UNCHANGED << idx, isAuthenticated >>
             ELSE IF exports = "none"
               THEN /\ isAuthenticated' = authFlagAfter(moduleName, isAuthenticated)
                    /\ LoopAdvance(idx + 1)
             ELSE AwaitEntry
  /\ UNCHANGED << authVars, sharedVars, orchVars >>
  /\ UNCHANGED << manifest, executionProfile, configFile, openContexts, openPages, contextsOpened,
                  pagesOpened, closeAttempts, config, context, page, lastWritten, pending, logOrder,
                  testResults, currentStep, moduleError, resultsAtThrow, lastRecord,
                  stats, testStatus, exitCode >>

\* TestRunner.logStep, reached through enhancedLogStep.
ModuleLogStep ==
  /\ pc = "inModule"
  /\ currentStep + Len(testResults) < MaxCalls
  /\ currentStep' = currentStep + 1
  /\ UNCHANGED << authVars, sharedVars, orchVars >>
  /\ UNCHANGED << manifest, executionProfile, configFile, openContexts, openPages, contextsOpened,
                  pagesOpened, closeAttempts, config, context, page, moduleData, lastWritten,
                  pending, logOrder, running,
                  testResults, isAuthenticated, pc, idx, thrown, allModules,
                  allModulesError, moduleError, resultsAtThrow, moduleCalls, lastRecord,
                  stats, testStatus, exitCode >>

\* (variant) The new result is put in front of the log.
unshift(log, result) == <<result>> \o log

\* this.testResults.push(result)
push(log, result) == Append(log, result)

\* (variant) A failed capture escapes recordResult and nothing is recorded.
recordResultStrict(testName, status, details, captureScreenshot, captureThrows) ==
  LET attempt == (status = "FAILED" \/ captureScreenshot) /\ page # 0
      result == [step |-> currentStep, test |-> testName, status |-> status,
                 details |-> details,
                 screenshot |-> IF attempt THEN screenshotPath(testName) ELSE << >>,
                 module |-> extractModuleFromTestName(testName)]
  IN IF attempt /\ captureThrows
       THEN [attempted |-> TRUE, captureThrew |-> TRUE, raised |-> TRUE,
             returned |-> << >>, log |-> testResults]
       ELSE [attempted |-> attempt, captureThrew |-> FALSE, raised |-> FALSE,
             returned |-> <<result>>, log |-> Append(testResults, result)]

\* TestRunner.recordResult: the result it builds, whether it tried a
\* screenshot, whether it raised, and the log it leaves.
recordResult(testName, status, details, captureScreenshot, captureThrows) ==
  LET attempt == (status = "FAILED" \/ captureScreenshot) /\ page # 0
      result == [step |-> currentStep, test |-> testName, status |-> status,
                 details |-> details,
                 screenshot |-> IF attempt /\ ~captureThrows
                                  THEN screenshotPath(testName) ELSE << >>,
                 module |-> extractModuleFromTestName(testName)]
  IN [attempted |-> attempt, captureThrew |-> attempt /\ captureThrows,
      raised |-> FALSE, returned |-> <<result>>, log |-> push(testResults, result)]

\* A module awaiting recordResult (through enhancedRecordResult).
ModuleRecordResult ==
  /\ pc = "inModule"
  /\ currentStep + Len(testResults) < MaxCalls
  /\ \E testName \in TestNamesOf(extractModuleName(executionOrder(cfg)[idx])),
        status \in {"PASSED", "FAILED"},
        captureScreenshot \in BOOLEAN, captureThrows \in BOOLEAN :
       LET details == IF status = "FAILED" THEN "error.message" ELSE Null
           r == recordResult(testName, status, details, captureScreenshot, captureThrows)
       IN /\ testResults' = r.log
          /\ logOrder' = Append(logOrder, Len(logOrder) + Cardinality(pending) + 1)
          /\ lastRecord' = [called |-> TRUE, status |-> status, attempted |-> r.attempted,
                            captureThrew |-> r.captureThrew, raised |-> r.raised,
                            returned |-> r.returned, logBefore |-> testResults]
  /\ UNCHANGED << authVars, sharedVars, orchVars >>
  /\ UNCHANGED << manifest, executionProfile, configFile, openContexts, openPages, contextsOpened,
                  pagesOpened, closeAttempts, config, context, page, moduleData, lastWritten,
                  pending, running,
                  currentStep, isAuthenticated, pc, idx, thrown, allModules,
                  allModulesError, moduleError, resultsAtThrow, moduleCalls, stats,
                  testStatus, exitCode >>

\* A module writing the shared module data it was handed.
ModuleWriteData ==
  /\ pc = "inModule"
  /\ extractModuleName(executionOrder(cfg)[idx]) = "Organisation"
  /\ \E k \in DataKeys, v \in DataValues :
       /\ moduleData[k] # v
       /\ moduleData' = [moduleData EXCEPT ![k] = v]
       /\ lastWritten' = [lastWritten EXCEPT ![k] = v]
  /\ UNCHANGED << authVars, sharedVars, orchVars >>
  /\ UNCHANGED << manifest, executionProfile, configFile, openContexts, openPages, contextsOpened,
                  pagesOpened, closeAttempts, config, context, page, running, pending,
                  logOrder, testResults,
                  currentStep, isAuthenticated, pc, idx, thrown, allModules,
                  allModulesError, moduleError, resultsAtThrow, moduleCalls, lastRecord,
                  stats, testStatus, exitCode >>

\* The entry function resolves: the rest of executeModule, then the loop.
ModuleReturn ==
  /\ pc = "inModule"
  /\ running' = running \ {idx}
  /\ isAuthenticated' = authFlagAfter(extractModuleName(executionOrder(cfg)[idx]),
                                      isAuthenticated)
  /\ LoopAdvance(idx + 1)
  /\ UNCHANGED << authVars, sharedVars, orchVars >>
  /\ UNCHANGED << manifest, executionProfile, configFile, openContexts, openPages, contextsOpened,
                  pagesOpened, closeAttempts, config, context, page, moduleData, lastWritten, pending, logOrder,
                  testResults, currentStep, moduleError, resultsAtThrow, moduleCalls,
                  lastRecord, stats, testStatus, exitCode >>

\* (variant) Skip-and-continue: the error is logged and the loop goes on.
ModuleThrowSkipped ==
  /\ pc = "inModule"
  /\ moduleError' = Err("ModuleError", idx)
  /\ resultsAtThrow' = testResults
  /\ running' = running \ {idx}
  /\ LoopAdvance(idx + 1)
  /\ UNCHANGED << authVars, sharedVars, orchVars >>
  /\ UNCHANGED << manifest, executionProfile, configFile, openContexts, openPages, contextsOpened,
                  pagesOpened, closeAttempts, config, context, page, moduleData, lastWritten, pending, logOrder,
                  testResults, currentStep, isAuthenticated, moduleCalls,
                  lastRecord, stats, testStatus, exitCode >>

\* The entry function rejects: both catch blocks log and rethrow.
ModuleThrow ==
  /\ pc = "inModule"
  /\ moduleError' = Err("ModuleError", idx)
  /\ resultsAtThrow' = testResults
  /\ running' = running \ {idx}
  /\ Reject(rethrow(rethrow(Err("ModuleError", idx))))
  /\ UNCHANGED << authVars, sharedVars, orchVars >>
  /\ UNCHANGED << manifest, executionProfile, configFile, openContexts, openPages, contextsOpened,
                  pagesOpened, closeAttempts, config, context, page, moduleData, lastWritten, pending, logOrder,
                  testResults, currentStep, isAuthenticated, idx, moduleCalls,
                  lastRecord, stats, testStatus, exitCode >>

Count(log, status) == Cardinality({ i \in 1..Len(log) : log[i].status = status })

\* TestRunner.groupResultsByModule: per module name, the indices of its results.
groupResultsByModule(log) ==
  [ m \in { log[i].module : i \in 1..Len(log) } |->
      SelectSeq(log, LAMBDA r : r.module = m) ]

\* Math.round(x / y * 100) for naturals x <= y, y > 0.
roundPercent(x, y) == (200 * x + y) \div (2 * y)

\* TestRunner.getStats
getStats ==
  [totalSteps |-> currentStep,
   totalTests |-> Len(testResults),
   passedTests |-> Count(testResults, "PASSED"),
   failedTests |-> Count(testResults, "FAILED"),
   successRate |-> IF Len(testResults) > 0
                     THEN roundPercent(Count(testResults, "PASSED"), Len(testResults))
                     ELSE 0,
   isAuthenticated |-> isAuthenticated,
   moduleData |-> moduleData,
   moduleResults |-> groupResultsByModule(testResults)]

\* (variant) No assertion on the statistics.
expectNothing(st) == FALSE

\* expect(stats.failedTests).toBe(0) throws exactly when the count is not 0.
expectFails(st) == st.failedTests # 0

\* continuous-flow test: getStats and the assertion on it.
GetStats ==
  /\ pc = "getStats"
  /\ stats' = <<getStats>>
  /\ thrown' = IF expectFails(getStats) THEN Err("ExpectFailed", 0) ELSE thrown
  /\ pc' = "cleanup"
  /\ UNCHANGED << authVars, sharedVars, orchVars >>
  /\ UNCHANGED << manifest, executionProfile, configFile, openContexts, openPages, contextsOpened,
                  pagesOpened, closeAttempts, config, context, page, moduleData, lastWritten,
                  pending, logOrder, running,
                  testResults, currentStep, isAuthenticated, idx, allModules,
                  allModulesError, moduleError, resultsAtThrow, moduleCalls, lastRecord,
                  testStatus, exitCode >>

\* (variant) cleanup lets a close error escape, and the finally block
\* replaces the error of the try block by it.
cleanupErrorEscapes(closeFailed, error) ==
  IF closeFailed THEN Err("CloseFailed", 0) ELSE error

\* The error the test settles with after cleanup ran in the finally block:
\* cleanup catches and logs what close() throws, so it is the error of the
\* try block, if any.
cleanupError(closeFailed, error) == error

\* TestRunner.cleanup in the finally block, then the test settles: it fails
\* with the error of the try block, if any.
Cleanup ==
  /\ pc = "cleanup"
  /\ \E pageCloseThrows \in BOOLEAN, contextCloseThrows \in BOOLEAN :
       LET pageTried == page # 0
           pageFailed == pageTried /\ pageCloseThrows
           contextTried == context # 0 /\ ~pageFailed
           contextClosed == contextTried /\ ~contextCloseThrows
       IN /\ closeAttempts' = closeAttempts
                \cup (IF pageTried THEN {<<"page", page>>} ELSE {})
                \cup (IF contextTried THEN {<<"context", context>>} ELSE {})
          /\ openPages' = IF contextClosed \/ (pageTried /\ ~pageFailed)
                            THEN openPages \ {page} ELSE openPages
          /\ openContexts' = IF contextClosed THEN openContexts \ {context}
                             ELSE openContexts
          /\ thrown' = cleanupError(pageFailed \/ (contextTried /\ contextCloseThrows),
                                    thrown)
  /\ testStatus' = IF thrown' = NoError THEN "passed" ELSE "failed"
  /\ pc' = "done"
  /\ UNCHANGED << authVars, sharedVars, orchVars >>
  /\ UNCHANGED << manifest, executionProfile, configFile, contextsOpened, pagesOpened, config, context,
                  page, moduleData, lastWritten,
                  pending, logOrder, running, testResults, currentStep, isAuthenticated, idx,
                  allModules, allModulesError, moduleError, resultsAtThrow,
                  moduleCalls, lastRecord, stats, exitCode >>

\* test-orchestrator: execSync of the playwright command throws on a failed
\* test, and main exits with 1 then, with 0 otherwise.
OrchestratorExit ==
  /\ pc = "done"
  /\ exitCode' = IF testStatus = "passed" THEN 0 ELSE 1
  /\ pc' = "exited"
  /\ UNCHANGED << authVars, sharedVars, orchVars >>
  /\ UNCHANGED << manifest, executionProfile, configFile, openContexts, openPages, contextsOpened,
                  pagesOpened, closeAttempts, config, context, page, moduleData, lastWritten,
                  pending, logOrder, running,
                  testResults, currentStep, isAuthenticated, idx, thrown, allModules,
                  allModulesError, moduleError, resultsAtThrow, moduleCalls, lastRecord,
                  stats, testStatus >>


(***************************************************************************)
(* AuthManager: data                                                        *)
(***************************************************************************)
\* Web storage maps are functions from their keys to strings.
EmptyMap == [k \in {} |-> ""]
Restrict(m, keys) == [k \in keys |-> m[k]]
Merge(m, n) == [k \in DOMAIN m \cup DOMAIN n |-> IF k \in DOMAIN n THEN n[k] ELSE m[k]]
\* !!m[key] in JavaScript: present and not the empty string.
Truthy(m, key) == key \in DOMAIN m /\ m[key] # ""

UserJson == "{\"id\":1}"
\* JSON.parse on the texts sessionStorage.user takes in the model.
IsJson(text) == text = UserJson
NoUser == << >>
\* The user field as saveAuthState and loadAuthState derive it: null, the
\* parsed object, or the raw string when parsing fails.
deriveUser(sessionStorage) ==
  IF ~Truthy(sessionStorage, "user") THEN NoUser
  ELSE IF IsJson(sessionStorage["user"]) THEN <<"object", sessionStorage["user"]>>
  ELSE <<"string", sessionStorage["user"]>>

\* What the application leaves in sessionStorage after the login form was
\* submitted: nothing (credentials rejected), an empty token, or token and user.
ServerSessions ==
  { EmptyMap,
    [k \in {"token", "user"} |-> IF k = "token" THEN "" ELSE UserJson],
    [k \in {"token", "user"} |-> IF k = "token" THEN "tok" ELSE UserJson] }

OneCookie == << [name |-> "sid", value |-> "c1"] >>
LocalPrefs == [k \in {"lang"} |-> "en"]

\* The authState of the constructor and of resetAuthState.
ResetState ==
  [isAuthenticated |-> FALSE, cookies |-> << >>, localStorage |-> EmptyMap,
   sessionStorage |-> EmptyMap, user |-> NoUser, timestamp |-> -1]

\* The snapshot file: absent, unparsable, or the JSON text of a snapshot.
\* JSON.stringify / JSON.parse are modelled by tagging and untagging.
FileAbsent == <<"absent">>
FileCorrupt == <<"corrupt">>
stringify(authData) == <<"json", authData>>
parseFails(text) == text[1] # "json"
parse(text) == text[2]

\* The page session: what the browser holds for the application's origin.
\* (The address the page is at is not kept: no method's result depends on it.)
BlankPage ==
  [cookies |-> << >>, localStorage |-> EmptyMap, sessionStorage |-> EmptyMap]

\* The AuthManager, its file and its page as one value the methods transform.
World == [authState |-> authState, authFile |-> authFile, pg |-> pg, clock |-> clock,
          calls |-> << >>]

\* steps: "page" when the method called the page capability at all, "fs" when
\* saveAuthState went on to the file system after its page calls, "signals"
\* when it looked for the protected-page elements, "noTokens" when performLogin
\* found no token or user after the form was submitted, "caught" when the
\* method ended in its catch block.
Logged(w, fn, ret, steps) ==
  [w EXCEPT !.calls = Append(@, [fn |-> fn, ret |-> ret, steps |-> steps])]

\* new Date() after some time has passed; the clock of the model stops at
\* MaxClock.
Later(now, passed) == IF now + passed > MaxClock THEN MaxClock ELSE now + passed

(***************************************************************************)
(* AuthManager.resetAuthState                                               *)
(***************************************************************************)
resetAuthState(w) == [w EXCEPT !.authState = ResetState]

(***************************************************************************)
(* AuthManager.saveAuthState                                                *)
(* env.failAt: the step that throws; env.tick: the time passing between    *)
(* the two new Date() calls.                                                *)
(***************************************************************************)
\* "page": one of the three page reads throws; "mkdir": creating the directory
\* or opening the file throws, the file is untouched; "write": writeFileSync
\* throws after truncating the file.
SaveFailures == {"none", "page", "mkdir", "write"}
SaveEnvs ==
  { e \in [failAt : SaveFailures, tick : {0, 1}] : e.failAt # "none" => e.tick = 0 }

NoSaveEnv == [failAt |-> "none", tick |-> 0]

\* (variant) The snapshot file is opened for writing before the page is read.
savePageFailedPartial(w, steps) ==
  [w |-> Logged([w EXCEPT !.authFile = FileCorrupt], "saveAuthState", "threw", steps),
   ok |-> FALSE]

\* A page call of saveAuthState throws: the catch block logs and rethrows.
savePageFailed(w, steps) ==
  [w |-> Logged(w, "saveAuthState", "threw", steps), ok |-> FALSE]

saveAuthState(w, env) ==
  LET cookies == w.pg.cookies
      localStorage == w.pg.localStorage
      \* only entries with a non-empty key and value are copied
      sessionStorage == Restrict(w.pg.sessionStorage,
                          { k \in DOMAIN w.pg.sessionStorage :
                              k # "" /\ w.pg.sessionStorage[k] # "" })
      now1 == w.clock
      now2 == Later(now1, env.tick)
      authData == [timestamp |-> now1, cookies |-> cookies,
                   localStorage |-> localStorage, sessionStorage |-> sessionStorage]
      steps == {"page", "fs"}
  IN IF env.failAt = "page"
       THEN savePageFailed(w, {"page"})
     ELSE IF env.failAt = "mkdir"
       THEN [w |-> Logged([w EXCEPT !.clock = now1], "saveAuthState", "threw", steps),
             ok |-> FALSE]
     ELSE IF env.failAt = "write"
       THEN [w |-> Logged([w EXCEPT !.clock = now1, !.authFile = FileCorrupt],
                          "saveAuthState", "threw", steps),
             ok |-> FALSE]
     ELSE [w |-> Logged([w EXCEPT
                           !.authFile = stringify(authData),
                           !.clock = now2,
                           !.authState =
                              [isAuthenticated |-> TRUE, cookies |-> cookies,
                               localStorage |-> localStorage,
                               sessionStorage |-> sessionStorage,
                               user |-> deriveUser(sessionStorage),
                               timestamp |-> now2]],
                        "saveAuthState", "data", steps),
           ok |-> TRUE]

(***************************************************************************)
(* AuthManager.loadAuthState                                                *)
(* env.failAt: the step that throws.                                        *)
(***************************************************************************)
\* "goto" stands for a throw of the navigation or of the sessionStorage
\* injection, which come before anything is written to the page.
LoadFailures == {"none", "read", "goto", "setLocal", "addCookies", "reload"}
LoadEnvs == { [failAt |-> f] : f \in LoadFailures }
NoLoadEnv == [failAt |-> "none"]

\* The steps loadAuthState reaches for a given file, and so the ones that can
\* throw: none for an absent file, the read alone for an unparsable one, and
\* an injection only for a part of the snapshot that is not empty.
LoadEnvsFor(file) ==
  IF file = FileAbsent THEN {NoLoadEnv}
  ELSE IF parseFails(file) THEN { [failAt |-> "read"] }
  ELSE { e \in LoadEnvs :
           /\ e.failAt = "setLocal" => DOMAIN parse(file).localStorage # {}
           /\ e.failAt = "addCookies" => Len(parse(file).cookies) > 0 }

\* (variant) The catch block without the reset.
loadFailedKeeps(w, steps) ==
  [w |-> Logged(w, "loadAuthState", "false", steps \cup {"caught"}), ret |-> FALSE]

\* The catch block of loadAuthState: log, reset, return false.
loadFailed(w, steps) ==
  [w |-> Logged(resetAuthState(w), "loadAuthState", "false", steps \cup {"caught"}),
   ret |-> FALSE]

loadAuthState(w, env) ==
  IF w.authFile = FileAbsent
    THEN [w |-> Logged(w, "loadAuthState", "false", {}), ret |-> FALSE]
  ELSE IF env.failAt = "read" \/ parseFails(w.authFile)
    THEN loadFailed(w, {})
  ELSE
    LET authData == parse(w.authFile)
        hasSession == DOMAIN authData.sessionStorage # {}
        hasLocal == DOMAIN authData.localStorage # {}
        hasCookies == Len(authData.cookies) > 0
        p1 == w.pg
        p2 == IF hasSession
                THEN [p1 EXCEPT !.sessionStorage = Merge(@, authData.sessionStorage)]
                ELSE p1
        p3 == IF hasLocal
                THEN [p2 EXCEPT !.localStorage = Merge(@, authData.localStorage)]
                ELSE p2
        p4 == IF hasCookies THEN [p3 EXCEPT !.cookies = authData.cookies] ELSE p3
        touched == {"page"}
    IN IF env.failAt = "goto" THEN loadFailed([w EXCEPT !.pg = p1], touched)
       ELSE IF env.failAt = "setLocal"
         THEN loadFailed([w EXCEPT !.pg = p2], touched)
       ELSE IF env.failAt = "addCookies"
         THEN loadFailed([w EXCEPT !.pg = p3], touched)
       ELSE IF env.failAt = "reload"
         THEN loadFailed([w EXCEPT !.pg = p4], touched)
       ELSE [w |-> Logged([w EXCEPT
                             !.pg = p4,
                             !.authState =
                                [isAuthenticated |-> TRUE,
                                 cookies |-> authData.cookies,
                                 localStorage |-> authData.localStorage,
                                 sessionStorage |-> authData.sessionStorage,
                                 user |-> deriveUser(authData.sessionStorage),
                                 timestamp |-> authData.timestamp]],
                          "loadAuthState", "true", touched),
             ret |-> TRUE]

(***************************************************************************)
(* AuthManager.performLogin                                                 *)
(* env.failAt: the page call that throws; env.session: what the application *)
(* puts into sessionStorage after the form is submitted (with a token it   *)
(* also sets its cookie and its localStorage entry); env.signal: whether a  *)
(* protected-page element becomes visible; env.save: the environment of     *)
(* saveAuthState.                                                           *)
(***************************************************************************)
\* "clear": the first evaluate throws; "form": the navigation to the login
\* page or a form step throws; "evalTokens": the read of the tokens throws;
\* "gotoOrgs": the navigation to the protected page throws. With both tokens
\* stored the last two leave the same state and log, so "gotoOrgs" stands for
\* either.
LoginFailures == {"none", "clear", "form", "evalTokens", "gotoOrgs"}
HasTokens(sessionStorage) == Truthy(sessionStorage, "token") /\ Truthy(sessionStorage, "user")

\* Only what a run reaches is drawn: no server answer when the form is never
\* submitted, no signal and no save environment when they are never read.
\* A rejected login that left sessionStorage empty and then threw at the
\* token read leaves what a throw at the form leaves, and is drawn as that.
LoginEnvs ==
  { e \in [failAt : LoginFailures, session : ServerSessions, signal : BOOLEAN,
           save : SaveEnvs] :
      /\ e.failAt \in {"clear", "form"} => e.session = EmptyMap
      /\ e.failAt = "evalTokens" => ~HasTokens(e.session) /\ e.session # EmptyMap
      /\ e.failAt = "gotoOrgs" => HasTokens(e.session)
      /\ ~(e.failAt = "none" /\ HasTokens(e.session)) => ~e.signal
      /\ ~e.signal => e.save = NoSaveEnv }

NoLoginEnv ==
  [failAt |-> "clear", session |-> EmptyMap, signal |-> FALSE, save |-> NoSaveEnv]

\* (variant) The catch block without the reset.
loginFailedKeeps(w, steps) ==
  [w |-> Logged(w, "performLogin", "false", steps \cup {"caught"}), ret |-> FALSE]

\* The catch block of performLogin: log, reset, return false.
loginFailed(w, steps) ==
  [w |-> Logged(resetAuthState(w), "performLogin", "false", steps \cup {"caught"}),
   ret |-> FALSE]

performLogin(w, env) ==
  LET p1 == [w.pg EXCEPT !.localStorage = EmptyMap, !.sessionStorage = EmptyMap]
      accepted == Truthy(env.session, "token")
      p3 == [p1 EXCEPT !.sessionStorage = env.session,
                       !.localStorage = IF accepted THEN LocalPrefs ELSE @,
                       !.cookies = IF accepted THEN OneCookie ELSE @]
      authTokensPresent == HasTokens(p3.sessionStorage)
      s1 == {"page"}
      s6 == {"page", "signals"}
  IN IF env.failAt = "clear" THEN loginFailed(w, s1)
     ELSE IF env.failAt = "form" THEN loginFailed([w EXCEPT !.pg = p1], s1)
     ELSE IF env.failAt = "evalTokens" THEN loginFailed([w EXCEPT !.pg = p3], s1)
     ELSE IF ~authTokensPresent THEN loginFailed([w EXCEPT !.pg = p3], {"page", "noTokens"})
     ELSE IF env.failAt = "gotoOrgs" THEN loginFailed([w EXCEPT !.pg = p3], s1)
     ELSE IF ~env.signal THEN loginFailed([w EXCEPT !.pg = p3], s6)
     ELSE LET saved == saveAuthState([w EXCEPT !.pg = p3], env.save)
          IN IF saved.ok
               THEN [w |-> Logged(saved.w, "performLogin", "true", s6), ret |-> TRUE]
               ELSE loginFailed(saved.w, s6)

(***************************************************************************)
(* AuthManager.isAuthenticated                                              *)
(* env.nav: "ok" (the first goto or its retry works) or "fail" (both throw); *)
(* env.expired: the application dropped the session and went to the login   *)
(* page; env.evalFails: reading sessionStorage throws; env.signal: whether  *)
(* a protected-page element is visible.                                     *)
(***************************************************************************)
AuthCheckEnvs ==
  { e \in [nav : {"ok", "fail"}, expired : BOOLEAN, evalFails : BOOLEAN,
           signal : BOOLEAN] :
      /\ e.nav = "fail" => ~e.expired /\ ~e.evalFails
      /\ e.expired => ~e.evalFails
      /\ (e.nav = "fail" \/ e.expired \/ e.evalFails) => ~e.signal }

NoCheckEnv == [nav |-> "fail", expired |-> FALSE, evalFails |-> FALSE, signal |-> FALSE]

\* (variant) The protected-page signal alone decides, the tokens are not read.
isAuthenticatedBySignal(w, env) ==
  IF env.nav = "fail"
    THEN [w |-> Logged(w, "isAuthenticated", "false", {"page"}), ret |-> FALSE]
    ELSE [w |-> Logged(w, "isAuthenticated", IF env.signal THEN "true" ELSE "false",
                       {"page", "signals"}),
          ret |-> env.signal]

isAuthenticatedCheck(w, env) ==
  LET p1 == IF env.expired THEN [w.pg EXCEPT !.sessionStorage = EmptyMap] ELSE w.pg
      w1 == [w EXCEPT !.pg = p1]
      hasAuthTokens == HasTokens(p1.sessionStorage)
  IN IF env.nav = "fail"
       THEN [w |-> Logged(w, "isAuthenticated", "false", {"page"}), ret |-> FALSE]
     ELSE IF env.evalFails
       THEN [w |-> Logged(w1, "isAuthenticated", "false", {"page"}),
             ret |-> FALSE]
     ELSE IF ~hasAuthTokens
       THEN [w |-> Logged(w1, "isAuthenticated", "false", {"page"}),
             ret |-> FALSE]
     ELSE [w |-> Logged(w1, "isAuthenticated", IF env.signal THEN "true" ELSE "false",
                        {"page", "signals"}),
           ret |-> env.signal]

(***************************************************************************)
(* AuthManager.ensureAuthenticated                                          *)
(***************************************************************************)
\* (variant) A fresh login whatever the saved session is worth.
ensureAuthenticatedAlwaysLogin(w, loadEnv, checkEnv, loginEnv) ==
  LET loaded == loadAuthState(w, loadEnv)
      checked == isAuthenticatedCheck(loaded.w, checkEnv)
      login == performLogin(IF loaded.ret THEN checked.w ELSE loaded.w, loginEnv)
  IN [w |-> Logged(login.w, "ensureAuthenticated",
                   IF login.ret THEN "true" ELSE "false", {}),
      ret |-> login.ret]

\* (variant) A second login attempt after a failed one.
ensureAuthenticatedRetry(w, loadEnv, checkEnv, loginEnv) ==
  LET loaded == loadAuthState(w, loadEnv)
      checked == isAuthenticatedCheck(loaded.w, checkEnv)
      login == performLogin(IF loaded.ret THEN checked.w ELSE loaded.w, loginEnv)
      again == performLogin(login.w, loginEnv)
  IN IF loaded.ret /\ checked.ret
       THEN [w |-> Logged(checked.w, "ensureAuthenticated", "true", {}), ret |-> TRUE]
     ELSE IF login.ret
       THEN [w |-> Logged(login.w, "ensureAuthenticated", "true", {}), ret |-> TRUE]
     ELSE [w |-> Logged(again.w, "ensureAuthenticated",
                        IF again.ret THEN "true" ELSE "false", {}),
           ret |-> again.ret]

ensureAuthenticated(w, loadEnv, checkEnv, loginEnv) ==
  LET loaded == loadAuthState(w, loadEnv)
      checked == isAuthenticatedCheck(loaded.w, checkEnv)
      login == performLogin(IF loaded.ret THEN checked.w ELSE loaded.w, loginEnv)
  IN IF loaded.ret /\ checked.ret
       THEN [w |-> Logged(checked.w, "ensureAuthenticated", "true", {}), ret |-> TRUE]
       ELSE [w |-> Logged(login.w, "ensureAuthenticated",
                          IF login.ret THEN "true" ELSE "false", {}),
             ret |-> login.ret]

(***************************************************************************)
(* AuthManager: operations as called by fixtures and modules                *)
(***************************************************************************)
InitAuth ==
  /\ authState = ResetState
  /\ authFile \in {FileAbsent, FileCorrupt}
  /\ pg = BlankPage
  /\ clock = 0
  /\ calls = << >>
  /\ preAuth = FALSE

\* The state a method leaves behind.
Result(w) ==
  /\ authState' = w.authState
  /\ authFile' = w.authFile
  /\ pg' = w.pg
  /\ clock' = w.clock
  /\ calls' = w.calls
  /\ preAuth' = authState.isAuthenticated

\* A fixture builds a new AuthManager over a fresh page of a new test.
NewAuthManager ==
  /\ authState' = ResetState
  /\ pg' = BlankPage
  /\ calls' = << >>
  /\ preAuth' = authState.isAuthenticated
  /\ UNCHANGED << authFile, clock >>
  /\ UNCHANGED << runnerVars, sharedVars, orchVars >>

SaveAuthState ==
  /\ \E env \in SaveEnvs : Result(saveAuthState(World, env).w)
  /\ UNCHANGED << runnerVars, sharedVars, orchVars >>

LoadAuthState ==
  /\ \E env \in LoadEnvsFor(authFile) : Result(loadAuthState(World, env).w)
  /\ UNCHANGED << runnerVars, sharedVars, orchVars >>

PerformLogin ==
  /\ \E env \in LoginEnvs : Result(performLogin(World, env).w)
  /\ UNCHANGED << runnerVars, sharedVars, orchVars >>

IsAuthenticated ==
  /\ \E env \in AuthCheckEnvs : Result(isAuthenticatedCheck(World, env).w)
  /\ UNCHANGED << runnerVars, sharedVars, orchVars >>

\* Environments that lead ensureAuthenticated to the same state and log are
\* drawn once.  A login that gets past its first evaluate empties both
\* storages, so a load that threw while injecting them is as one that threw
\* at the navigation, and a session the application dropped is as a
\* navigation that failed; a throwing read of sessionStorage returns as a
\* failed navigation does, and so does the check of a page that holds no
\* tokens (tokens: whether the page holds them when the check starts).
OneOfEach(loadEnv, checkEnv, loginEnv, tokens) ==
  /\ ~checkEnv.evalFails
  /\ ~tokens => checkEnv.nav = "fail" \/ checkEnv.expired
  /\ loginEnv.failAt # "clear"
       => loadEnv.failAt \notin {"setLocal", "addCookies"} /\ ~checkEnv.expired

EnsureAuthenticated ==
  /\ \E loadEnv \in LoadEnvsFor(authFile) :
       LET loaded == loadAuthState(World, loadEnv)
       IN IF loaded.ret
            THEN \E checkEnv \in AuthCheckEnvs :
                   IF isAuthenticatedCheck(loaded.w, checkEnv).ret
                     THEN Result(ensureAuthenticated(World, loadEnv, checkEnv,
                                                     NoLoginEnv).w)
                     ELSE \E loginEnv \in LoginEnvs :
                            /\ OneOfEach(loadEnv, checkEnv, loginEnv,
                                         HasTokens(loaded.w.pg.sessionStorage))
                            /\ Result(ensureAuthenticated(World, loadEnv, checkEnv,
                                                          loginEnv).w)
            ELSE \E loginEnv \in LoginEnvs :
                   /\ OneOfEach(loadEnv, NoCheckEnv, loginEnv, FALSE)
                   /\ Result(ensureAuthenticated(World, loadEnv, NoCheckEnv, loginEnv).w)
  /\ UNCHANGED << runnerVars, sharedVars, orchVars >>

ResetAuthState ==
  /\ Result(Logged(resetAuthState(World), "resetAuthState", "void", {}))
  /\ UNCHANGED << runnerVars, sharedVars, orchVars >>

(***************************************************************************)
(* Shared authentication state of config/global-setup.js and of the        *)
(* fixtures of fixtures/shared-auth-hooks.js                                *)
(***************************************************************************)
\* JavaScript values as (type, text) pairs; && and || return one of their
\* operands, and a condition tests its value with ToBoolean.
Undefined == <<"undefined", "">>
JsNull == <<"null", "">>
JsBool(b) == <<"boolean", IF b THEN "true" ELSE "false">>
JsString(text) == <<"string", text>>
JsObject(text) == <<"object", text>>
ToBoolean(v) ==
  IF v[1] = "boolean" THEN v[2] = "true"
  ELSE IF v[1] = "string" THEN v[2] # ""
  ELSE v[1] = "object"
AndJS(a, b) == IF ToBoolean(a) THEN b ELSE a
OrJS(a, b) == IF ToBoolean(a) THEN a ELSE b
\* Property read on a storage object: undefined for a missing key.
Get(m, key) == IF key \in DOMAIN m THEN JsString(m[key]) ELSE Undefined

\* The object literal resetSharedAuthState and globalSetup assign when there
\* is no session. The timestamp fields are left out of the model.
EmptyShared(source, reason) ==
  [isAuthenticated |-> JsBool(FALSE), cookies |-> << >>, localStorage |-> EmptyMap,
   sessionStorage |-> <<EmptyMap>>, user |-> JsNull, validationAttempts |-> 0,
   sessionSource |-> source, resetReason |-> reason]

NoSharedCall == [fn |-> "none", ret |-> Undefined]

\* globalSetup: the state it builds from the snapshot file.
globalSetup(file) ==
  IF file # FileAbsent /\ ~parseFails(file)
       /\ ToBoolean(Get(parse(file).sessionStorage, "token"))
    THEN [isAuthenticated |-> JsBool(TRUE),
          cookies |-> parse(file).cookies,
          localStorage |-> parse(file).localStorage,
          sessionStorage |-> <<parse(file).sessionStorage>>,
          user |-> OrJS(Get(parse(file).sessionStorage, "user"), JsNull),
          validationAttempts |-> 0, sessionSource |-> "file",
          resetReason |-> "undefined"]
    ELSE EmptyShared("none", "undefined")

\* hasTokens and hasUser of validateSharedAuthState.
hasTokens(s) ==
  IF s.sessionStorage = << >> THEN JsNull
  ELSE OrJS(Get(s.sessionStorage[1], "token"), Get(s.sessionStorage[1], "refreshToken"))

hasUser(s) ==
  OrJS(s.user, IF s.sessionStorage = << >> THEN Undefined
               ELSE Get(s.sessionStorage[1], "user"))

\* (variant) The stored flag trusted without looking at the session.
isValidFlagOnly(s) == s.isAuthenticated

\* isValid of validateSharedAuthState: the value of the && chain.
isValid(s) == AndJS(AndJS(s.isAuthenticated, hasTokens(s)), hasUser(s))

\* The updates callers hand to updateSharedAuthState.
SharedUpdates ==
  { [isAuthenticated |-> JsBool(TRUE)],
    [isAuthenticated |-> JsBool(FALSE)],
    [sessionStorage |-> << >>],
    [user |-> JsObject(UserJson)],
    [isAuthenticated |-> JsBool(TRUE),
     sessionStorage |-> <<[k \in {"token", "user"} |->
                             IF k = "token" THEN "tok" ELSE UserJson]>>] }

\* Object.assign(global.sharedAuthState, updates)
assign(s, updates) ==
  [s EXCEPT
     !.isAuthenticated = IF "isAuthenticated" \in DOMAIN updates
                           THEN updates.isAuthenticated ELSE @,
     !.sessionStorage = IF "sessionStorage" \in DOMAIN updates
                          THEN updates.sessionStorage ELSE @,
     !.user = IF "user" \in DOMAIN updates THEN updates.user ELSE @]

\* The tokens argument of flowContext.updateAuthStatus: << >> is null.
TokenArgs ==
  { << >>, <<[k \in {"token"} |-> "tok"]>>, <<[k \in {"refreshToken"} |-> "ref"]>> }

\* { ...global.sharedAuthState.sessionStorage, ...tokens }
spread(sessionStorage, tokens) ==
  <<Merge(IF sessionStorage = << >> THEN EmptyMap ELSE sessionStorage[1], tokens[1])>>

\* The pages handed to global.saveAuthenticationState: a blank one, and the
\* page as the application leaves it after the login form was submitted.
SharedPages ==
  { [BlankPage EXCEPT !.sessionStorage = session,
                      !.cookies = IF Truthy(session, "token") THEN OneCookie ELSE @,
                      !.localStorage = IF Truthy(session, "token") THEN LocalPrefs ELSE @] :
      session \in ServerSessions }

(***************************************************************************)
(* Shared authentication state: operations                                  *)
(***************************************************************************)
SharedFrame == UNCHANGED << runnerVars, authState, pg, clock, calls, preAuth, orchVars >>

GlobalSetup ==
  /\ sharedAuthState' = <<globalSetup(authFile)>>
  /\ sharedCall' = [fn |-> "globalSetup", ret |-> Undefined]
  /\ UNCHANGED authFile
  /\ SharedFrame

\* global.saveAuthenticationState(page): failAt is the step that throws.
SaveAuthenticationState ==
  /\ \E p \in SharedPages, failAt \in {"none", "page", "write"} :
       IF failAt = "page"
         THEN /\ sharedCall' = [fn |-> "saveAuthenticationState", ret |-> JsString("threw")]
              /\ UNCHANGED << authFile, sharedAuthState >>
       ELSE IF failAt = "write"
         THEN /\ sharedCall' = [fn |-> "saveAuthenticationState", ret |-> JsString("threw")]
              /\ authFile' = FileCorrupt
              /\ UNCHANGED sharedAuthState
       ELSE /\ authFile' = stringify([timestamp |-> clock, cookies |-> p.cookies,
                                      localStorage |-> p.localStorage,
                                      sessionStorage |-> p.sessionStorage])
            /\ sharedAuthState' =
                 << [isAuthenticated |-> JsBool(TRUE), cookies |-> p.cookies,
                     localStorage |-> p.localStorage,
                     sessionStorage |-> <<p.sessionStorage>>,
                     user |-> IF ToBoolean(Get(p.sessionStorage, "user"))
                                THEN JsObject(p.sessionStorage["user"]) ELSE JsNull,
                     validationAttempts |-> 0, sessionSource |-> "live",
                     resetReason |-> "undefined"] >>
            /\ sharedCall' = [fn |-> "saveAuthenticationState", ret |-> JsObject("authData")]
  /\ SharedFrame

UpdateSharedAuthState ==
  /\ \E updates \in SharedUpdates :
       sharedAuthState' =
         << assign(IF sharedAuthState = << >>
                     THEN EmptyShared("undefined", "undefined")
                     ELSE sharedAuthState[1],
                   updates) >>
  /\ sharedCall' = [fn |-> "updateSharedAuthState", ret |-> Undefined]
  /\ UNCHANGED authFile
  /\ SharedFrame

ValidateSharedAuthState ==
  /\ IF sharedAuthState = << >>
       THEN /\ sharedCall' = [fn |-> "validateSharedAuthState", ret |-> JsBool(FALSE)]
            /\ UNCHANGED sharedAuthState
       ELSE /\ sharedAuthState[1].validationAttempts < MaxValidations
            /\ sharedAuthState' =
                 << [sharedAuthState[1] EXCEPT !.validationAttempts = @ + 1] >>
            /\ sharedCall' = [fn |-> "validateSharedAuthState",
                              ret |-> isValid(sharedAuthState[1])]
  /\ UNCHANGED authFile
  /\ SharedFrame

ResetSharedAuthState ==
  /\ sharedAuthState' = <<EmptyShared("undefined", "manual reset")>>
  /\ sharedCall' = [fn |-> "resetSharedAuthState", ret |-> Undefined]
  /\ UNCHANGED authFile
  /\ SharedFrame

\* flowContext.updateAuthStatus(isAuthenticated, tokens)
UpdateAuthStatus ==
  /\ \E flag \in BOOLEAN, tokens \in TokenArgs :
       sharedAuthState' =
         IF sharedAuthState = << >> THEN sharedAuthState
         ELSE << [sharedAuthState[1] EXCEPT
                    !.isAuthenticated = JsBool(flag),
                    !.sessionStorage = IF tokens # << >> THEN spread(@, tokens) ELSE @] >>
  /\ sharedCall' = [fn |-> "updateAuthStatus", ret |-> Undefined]
  /\ UNCHANGED authFile
  /\ SharedFrame

(***************************************************************************)
(* DynamicTestOrchestrator                                                  *)
(* A file name is the sequence of its lower-cased words, as determinePriority *)
(* reads it.                                                                *)
(***************************************************************************)
\* The test files a tests directory may hold, in localeCompare order of names.
DynTestNames ==
  << <<"auth", "session">>, <<"continuous", "flow">>, <<"focus", "area">>,
     <<"login", "page", "flow">> >>

hasWord(fileName, w) == includes(fileName, <<w>>)

determinePriority(fileName) ==
  IF hasWord(fileName, "login") \/ hasWord(fileName, "auth") THEN 1
  ELSE IF hasWord(fileName, "setup") \/ hasWord(fileName, "config") THEN 2
  ELSE IF hasWord(fileName, "organisation") \/ hasWord(fileName, "user")
            \/ hasWord(fileName, "dashboard") THEN 3
  ELSE IF hasWord(fileName, "project") \/ hasWord(fileName, "report")
            \/ hasWord(fileName, "admin") THEN 4
  ELSE IF hasWord(fileName, "integration") \/ hasWord(fileName, "e2e")
            \/ hasWord(fileName, "workflow") THEN 5
  ELSE 6

analyzeTestFile(fileName) == [name |-> fileName, priority |-> determinePriority(fileName)]

localeCompareRank(name) ==
  CHOOSE i \in 1..Len(DynTestNames) : DynTestNames[i] = name

\* The comparator of createExecutionPlan: priority first, then name.
sortsBefore(a, b) ==
  \/ a.priority < b.priority
  \/ a.priority = b.priority /\ localeCompareRank(a.name) < localeCompareRank(b.name)

RECURSIVE sortedTests(_)
sortedTests(files) ==
  IF files = {} THEN << >>
  ELSE LET first == CHOOSE x \in files : \A y \in files \ {x} : sortsBefore(x, y)
       IN <<first>> \o sortedTests(files \ {first})

\* The phases in the order their first test comes in the sorted list.
RECURSIVE phasesOf(_)
phasesOf(sorted) ==
  IF sorted = << >> THEN << >>
  ELSE LET p == sorted[1].priority
       IN << [priority |-> p,
              tests |-> SelectSeq(sorted, LAMBDA t : t.priority = p)] >>
          \o phasesOf(SelectSeq(sorted, LAMBDA t : t.priority # p))

createExecutionPlan(files) == phasesOf(sortedTests(files))

\* The break after a failed test of priority 1 or 2 leaves the loop over the
\* tests of the phase; the loop over the phases goes on with the next one.
afterCriticalFailure(plan, i) == i + 1

\* main up to the first test: discoverTestFiles has filled this.testFiles,
\* createExecutionPlan, then executeTests up to its loops.
DynStart ==
  /\ dynPc = "start"
  /\ executionPlan' = createExecutionPlan(dynTestFiles)
  /\ IF dryRun
       THEN dynPc' = "done" /\ UNCHANGED isLoggedIn
       ELSE /\ isLoggedIn' = (authFile[1] # "absent" /\ ~parseFails(authFile))
            /\ dynPc' = IF dynTestFiles = {} THEN "done" ELSE "run"
  /\ UNCHANGED << dryRun, dynTestFiles, phaseIdx, testIdx, results >>
  /\ UNCHANGED << runnerVars, authVars, sharedVars, cliVars >>

\* One turn of the inner loop of executeTests: executeTest runs the file with
\* execSync, which throws when the test run fails.
DynExecuteTest ==
  /\ dynPc = "run"
  /\ \E fails \in BOOLEAN :
       LET phase == executionPlan[phaseIdx]
           test == phase.tests[testIdx]
           nextPhase ==
             IF fails /\ test.priority <= 2
               THEN afterCriticalFailure(executionPlan, phaseIdx)
             ELSE IF testIdx < Len(phase.tests) THEN phaseIdx
             ELSE phaseIdx + 1
       IN /\ results' = Append(results,
                               [test |-> test.name,
                                status |-> IF fails THEN "FAILED" ELSE "PASSED",
                                phase |-> phase.priority])
          /\ phaseIdx' = nextPhase
          /\ testIdx' = IF nextPhase = phaseIdx THEN testIdx + 1 ELSE 1
          /\ dynPc' = IF nextPhase > Len(executionPlan) THEN "done" ELSE "run"
  /\ UNCHANGED << dryRun, dynTestFiles, executionPlan, isLoggedIn >>
  /\ UNCHANGED << runnerVars, authVars, sharedVars, cliVars >>

\* The orchestrator before main runs.
DynIdle ==
  /\ dryRun = FALSE
  /\ dynTestFiles = {}
  /\ executionPlan = << >>
  /\ phaseIdx = 1
  /\ testIdx = 1
  /\ results = << >>
  /\ isLoggedIn = FALSE
  /\ dynPc = "start"

(***************************************************************************)
(* TestOrchestrator and its CLI                                             *)
(***************************************************************************)
NoArgs == [help |-> FALSE, individual |-> FALSE, bail |-> FALSE, dryRun |-> FALSE,
           profile |-> ""]

\* The command lines: each flag given or not, --profile absent ("") or
\* followed by the name of a profile of the configuration.
ArgLines ==
  [help : BOOLEAN, individual : BOOLEAN, bail : BOOLEAN, dryRun : BOOLEAN,
   profile : {""} \cup DOMAIN ExecutionProfiles]

\* The options object main builds from the arguments.
parseArgs(a) ==
  [mode |-> IF a.individual THEN "individual" ELSE "continuous",
   profile |-> IF a.profile # "" THEN a.profile ELSE "full",
   bail |-> a.bail,
   dryRun |-> a.dryRun]

ContinuousFlowFile == <<"tests", "continuous-flow.test.js">>

\* TestOrchestrator.executeIndividualTests over the files of the profile:
\* failing is the set of positions whose test run fails.  Each file is run
\* on its own, in order; with bail the first failure is rethrown.
executeIndividualTests(testFiles, bail, failing) ==
  LET failed == { i \in 1..Len(testFiles) : i \in failing }
      firstFailed == CHOOSE i \in failed : \A j \in failed : i <= j
  IN IF bail /\ failed # {}
       THEN [launched |-> SubSeq(testFiles, 1, firstFailed),
             error |-> Err("TestRunFailed", firstFailed)]
       ELSE [launched |-> testFiles, error |-> NoError]

\* TestOrchestrator.executeTests: loadConfiguration, the dry run, then the
\* dispatch on the mode.  fileState and file are the configuration file as
\* loadConfiguration finds it (one file stands for the unreadable ones),
\* runFails the outcome of the playwright run.
executeTests(opts, fileState, file, runFails) ==
  IF fileState = "missing"
    THEN [config |-> << >>, launched |-> << >>, error |-> Err("ConfigNotFound", 0)]
  ELSE IF fileState = "malformed"
    THEN [config |-> << >>, launched |-> << >>, error |-> Err("ConfigParse", 0)]
  ELSE IF opts.dryRun
    THEN [config |-> <<file>>, launched |-> << >>, error |-> NoError]
  ELSE IF opts.mode = "continuous"
    THEN [config |-> <<file>>, launched |-> <<ContinuousFlowFile>>,
          error |-> IF runFails THEN Err("TestRunFailed", 1) ELSE NoError]
  ELSE [config |-> <<file>>, launched |-> << >>, error |-> Err("UnknownMode", 0)]

\* main: the options, and the help text.
CliMain ==
  /\ cliPc = "main"
  /\ options' = <<parseArgs(args)>>
  /\ IF args.help
       THEN cliPc' = "exited" /\ cliExitCode' = 0
       ELSE cliPc' = "executeTests" /\ UNCHANGED cliExitCode
  /\ UNCHANGED << args, orchConfig, launched, cliError >>
  /\ UNCHANGED << runnerVars, authVars, sharedVars, dynVars >>

\* await orchestrator.executeTests(options)
CliExecuteTests ==
  /\ cliPc = "executeTests"
  /\ \E fileState \in {"ok", "missing", "malformed"}, file \in Manifests,
        runFails \in BOOLEAN :
       LET r == executeTests(options[1], fileState, file, runFails)
       IN /\ fileState # "ok" => file.testPrecedence = << >>
          /\ orchConfig' = r.config
          /\ launched' = r.launched
          /\ cliError' = r.error
  /\ cliPc' = "exit"
  /\ UNCHANGED << args, options, cliExitCode >>
  /\ UNCHANGED << runnerVars, authVars, sharedVars, dynVars >>

\* process.exit(0) after executeTests returned, process.exit(1) in the catch.
CliExit ==
  /\ cliPc = "exit"
  /\ cliExitCode' = IF cliError = NoError THEN 0 ELSE 1
  /\ cliPc' = "exited"
  /\ UNCHANGED << args, options, orchConfig, launched, cliError >>
  /\ UNCHANGED << runnerVars, authVars, sharedVars, dynVars >>

\* The CLI before main runs.
CliIdle ==
  /\ args = NoArgs
  /\ options = << >>
  /\ orchConfig = << >>
  /\ launched = << >>
  /\ cliError = NoError
  /\ cliPc = "main"
  /\ cliExitCode = -1

OrchIdle == DynIdle /\ CliIdle

\* The shared state in a process where globalSetup has not run.
SharedIdle ==
  /\ sharedAuthState = << >>
  /\ sharedCall = NoSharedCall

\* The variables of the other component, at rest.
AuthIdle ==
  /\ authState = ResetState
  /\ authFile = FileAbsent
  /\ pg = BlankPage
  /\ clock = 0
  /\ calls = << >>
  /\ preAuth = FALSE

RunnerIdle ==
  /\ manifest = [testPrecedence |-> << >>,
                 moduleSettings |-> [m \in ModuleNames |->
                                       [priority |-> "high", dependencies |-> << >>]],
                 executionProfiles |-> ExecutionProfiles]
  /\ executionProfile = "full"
  /\ configFile = "ok"
  /\ openContexts = {}
  /\ openPages = {}
  /\ contextsOpened = 0
  /\ pagesOpened = 0
  /\ closeAttempts = {}
  /\ config = << >>
  /\ context = 0
  /\ page = 0
  /\ moduleData = [k \in DataKeys |-> Null]
  /\ lastWritten = [k \in DataKeys |-> Null]
  /\ running = {}
  /\ pending = {}
  /\ logOrder = << >>
  /\ testResults = << >>
  /\ currentStep = 0
  /\ isAuthenticated = FALSE
  /\ pc = "idle"
  /\ idx = 1
  /\ thrown = NoError
  /\ allModules = "none"
  /\ allModulesError = NoError
  /\ moduleError = NoError
  /\ resultsAtThrow = << >>
  /\ moduleCalls = << >>
  /\ lastRecord = NoRecord
  /\ stats = << >>
  /\ testStatus = "running"
  /\ exitCode = -1

Init == InitRunner /\ AuthIdle /\ SharedIdle /\ OrchIdle

Next ==
  \/ LoadConfiguration
  \/ InitializeBrowserSession
  \/ ExecuteAllModules
  \/ ExecuteModule
  \/ ModuleLogStep
  \/ ModuleRecordResult
  \/ ModuleWriteData
  \/ ModuleReturn
  \/ ModuleThrow
  \/ GetStats
  \/ Cleanup
  \/ OrchestratorExit

Spec == Init /\ [][Next]_vars

InitA == RunnerIdle /\ InitAuth /\ SharedIdle /\ OrchIdle

NextAuth ==
  \/ NewAuthManager
  \/ SaveAuthState
  \/ LoadAuthState
  \/ PerformLogin
  \/ IsAuthenticated
  \/ EnsureAuthenticated
  \/ ResetAuthState

SpecAuth == InitA /\ [][NextAuth]_vars

\* The global helpers called in any order in one process; the snapshot file
\* is absent or unreadable until saveAuthenticationState writes it.
InitShared ==
  /\ RunnerIdle
  /\ authState = ResetState
  /\ authFile \in {FileAbsent, FileCorrupt}
  /\ pg = BlankPage
  /\ clock = 0
  /\ calls = << >>
  /\ preAuth = FALSE
  /\ SharedIdle
  /\ OrchIdle

NextShared ==
  \/ GlobalSetup
  \/ SaveAuthenticationState
  \/ UpdateSharedAuthState
  \/ ValidateSharedAuthState
  \/ ResetSharedAuthState
  \/ UpdateAuthStatus

SpecShared == InitShared /\ [][NextShared]_vars

\* One run of the dynamic orchestrator's main over a tests directory.
InitDyn ==
  /\ RunnerIdle
  /\ authState = ResetState
  /\ authFile \in {FileAbsent, FileCorrupt,
                  stringify([sessionStorage |-> EmptyMap, cookies |-> << >>,
                             localStorage |-> EmptyMap, timestamp |-> 0])}
  /\ pg = BlankPage
  /\ clock = 0
  /\ calls = << >>
  /\ preAuth = FALSE
  /\ SharedIdle
  /\ dryRun \in BOOLEAN
  /\ dynTestFiles \in SUBSET { analyzeTestFile(DynTestNames[i]) : i \in 1..Len(DynTestNames) }
  /\ executionPlan = << >>
  /\ phaseIdx = 1
  /\ testIdx = 1
  /\ results = << >>
  /\ isLoggedIn = FALSE
  /\ dynPc = "start"
  /\ CliIdle

NextDyn ==
  \/ DynStart
  \/ DynExecuteTest

SpecDyn == InitDyn /\ [][NextDyn]_vars

\* One run of the test-orchestrator CLI with some command line.
InitCli ==
  /\ RunnerIdle
  /\ AuthIdle
  /\ SharedIdle
  /\ DynIdle
  /\ args \in ArgLines
  /\ options = << >>
  /\ orchConfig = << >>
  /\ launched = << >>
  /\ cliError = NoError
  /\ cliPc = "main"
  /\ cliExitCode = -1

NextCli ==
  \/ CliMain
  \/ CliExecuteTests
  \/ CliExit

SpecCli == InitCli /\ [][NextCli]_vars

(***************************************************************************)
(* TestRunner: the result log under free calls                              *)
(* The operations of a TestRunner called in any order by module code that   *)
(* may or may not await recordResult.  A recordResult call that takes a     *)
(* screenshot is suspended at page.screenshot and pushes its result when    *)
(* the capture settles; one that takes none pushes before it returns.       *)
(***************************************************************************)
AllTestNames == UNION { TestNamesOf(m) : m \in ModuleNames }

recordCalls == Len(logOrder) + Cardinality(pending)

\* recordResult up to the capture: the result object, and whether a
\* screenshot is attempted.
recordResultBegin(testName, status, details, captureScreenshot) ==
  [result |-> [step |-> currentStep, test |-> testName, status |-> status,
               details |-> details, screenshot |-> << >>,
               module |-> extractModuleFromTestName(testName)],
   attempt |-> (status = "FAILED" \/ captureScreenshot) /\ page # 0]

\* recordResult after the capture settled: the path is set unless it threw.
recordResultEnd(result, captureThrows) ==
  IF captureThrows THEN result
  ELSE [result EXCEPT !.screenshot = screenshotPath(result.test)]

\* A call of recordResult, awaited or not.
RecordResultCall ==
  /\ recordCalls < MaxRecords
  /\ \E testName \in AllTestNames, status \in {"PASSED", "FAILED"},
        captureScreenshot \in BOOLEAN :
       LET details == IF status = "FAILED" THEN "error.message" ELSE Null
           b == recordResultBegin(testName, status, details, captureScreenshot)
           n == recordCalls + 1
       IN IF b.attempt
            THEN /\ pending' = pending \cup {[call |-> n, result |-> b.result]}
                 /\ UNCHANGED << testResults, logOrder >>
            ELSE /\ testResults' = push(testResults, b.result)
                 /\ logOrder' = Append(logOrder, n)
                 /\ UNCHANGED pending
  /\ UNCHANGED << authVars, sharedVars, orchVars >>
  /\ UNCHANGED << manifest, executionProfile, configFile, openContexts, openPages,
                  contextsOpened, pagesOpened, closeAttempts, config, context, page,
                  moduleData, lastWritten, running, currentStep, isAuthenticated, pc,
                  idx, thrown, allModules, allModulesError, moduleError, resultsAtThrow,
                  moduleCalls, lastRecord, stats, testStatus, exitCode >>

\* page.screenshot settles for the oldest suspended call (the page answers
\* in the order it was asked); on a closed page it throws.  The rest of
\* recordResult runs: the catch swallows a throw, the result is pushed.
ScreenshotSettles ==
  /\ \E c \in pending, captureThrows \in BOOLEAN :
       /\ \A d \in pending : c.call <= d.call
       /\ page \notin openPages => captureThrows
       /\ testResults' = push(testResults, recordResultEnd(c.result, captureThrows))
       /\ logOrder' = Append(logOrder, c.call)
       /\ pending' = pending \ {c}
  /\ UNCHANGED << authVars, sharedVars, orchVars >>
  /\ UNCHANGED << manifest, executionProfile, configFile, openContexts, openPages,
                  contextsOpened, pagesOpened, closeAttempts, config, context, page,
                  moduleData, lastWritten, running, currentStep, isAuthenticated, pc,
                  idx, thrown, allModules, allModulesError, moduleError, resultsAtThrow,
                  moduleCalls, lastRecord, stats, testStatus, exitCode >>

\* TestRunner.logStep
LogStepCall ==
  /\ currentStep < MaxCalls
  /\ currentStep' = currentStep + 1
  /\ UNCHANGED << authVars, sharedVars, orchVars >>
  /\ UNCHANGED << manifest, executionProfile, configFile, openContexts, openPages,
                  contextsOpened, pagesOpened, closeAttempts, config, context, page,
                  moduleData, lastWritten, pending, logOrder, running, testResults,
                  isAuthenticated, pc, idx, thrown, allModules, allModulesError,
                  moduleError, resultsAtThrow, moduleCalls, lastRecord, stats,
                  testStatus, exitCode >>

\* TestRunner.getStats, which calls groupResultsByModule: the statistics are
\* handed to the caller, the runner's fields are only read.
GetStatsCall ==
  /\ stats' = <<getStats>>
  /\ UNCHANGED << authVars, sharedVars, orchVars >>
  /\ UNCHANGED << manifest, executionProfile, configFile, openContexts, openPages,
                  contextsOpened, pagesOpened, closeAttempts, config, context, page,
                  moduleData, lastWritten, pending, logOrder, running, testResults,
                  currentStep, isAuthenticated, pc, idx, thrown, allModules,
                  allModulesError, moduleError, resultsAtThrow, moduleCalls, lastRecord,
                  testStatus, exitCode >>

\* TestRunner.cleanup on an open session: both closes in one try block.
CleanupCall ==
  /\ page \in openPages
  /\ \E pageCloseThrows \in BOOLEAN, contextCloseThrows \in BOOLEAN :
       LET contextTried == ~pageCloseThrows
           contextClosed == contextTried /\ ~contextCloseThrows
       IN /\ closeAttempts' = closeAttempts \cup {<<"page", page>>}
                \cup (IF contextTried THEN {<<"context", context>>} ELSE {})
          /\ openPages' = IF pageCloseThrows THEN openPages ELSE openPages \ {page}
          /\ openContexts' = IF contextClosed THEN openContexts \ {context}
                             ELSE openContexts
  /\ UNCHANGED << authVars, sharedVars, orchVars >>
  /\ UNCHANGED << manifest, executionProfile, configFile, contextsOpened, pagesOpened,
                  config, context, page, moduleData, lastWritten, pending, logOrder,
                  running, testResults, currentStep, isAuthenticated, pc, idx, thrown,
                  allModules, allModulesError, moduleError, resultsAtThrow, moduleCalls,
                  lastRecord, stats, testStatus, exitCode >>

\* A runner whose session is open (or was never opened), nothing recorded.
InitLog ==
  /\ manifest = [testPrecedence |-> << >>,
                 moduleSettings |-> [m \in ModuleNames |->
                                       [priority |-> "high", dependencies |-> << >>]],
                 executionProfiles |-> ExecutionProfiles]
  /\ executionProfile = "full"
  /\ configFile = "ok"
  /\ \E opened \in {0, 1} :
       /\ context = opened
       /\ page = opened
       /\ contextsOpened = opened
       /\ pagesOpened = opened
       /\ openContexts = IF opened = 1 THEN {1} ELSE {}
       /\ openPages = IF opened = 1 THEN {1} ELSE {}
  /\ closeAttempts = {}
  /\ config = << >>
  /\ moduleData = [k \in DataKeys |-> Null]
  /\ lastWritten = [k \in DataKeys |-> Null]
  /\ running = {}
  /\ pending = {}
  /\ logOrder = << >>
  /\ testResults = << >>
  /\ currentStep = 0
  /\ isAuthenticated = FALSE
  /\ pc = "idle"
  /\ idx = 1
  /\ thrown = NoError
  /\ allModules = "none"
  /\ allModulesError = NoError
  /\ moduleError = NoError
  /\ resultsAtThrow = << >>
  /\ moduleCalls = << >>
  /\ lastRecord = NoRecord
  /\ stats = << >>
  /\ testStatus = "running"
  /\ exitCode = -1
  /\ AuthIdle
  /\ SharedIdle
  /\ OrchIdle

NextLog ==
  \/ RecordResultCall
  \/ ScreenshotSettles
  \/ LogStepCall
  \/ GetStatsCall
  \/ CleanupCall

SpecLog == InitLog /\ [][NextLog]_vars

(***************************************************************************)
(* Properties                                                               *)
(***************************************************************************)
IsPrefix(s, t) == Len(s) <= Len(t) /\ SubSeq(t, 1, Len(s)) = s

Invoked == { j \in 1..Len(moduleCalls) : moduleCalls[j].invoked }

\* C1: executeAllModules runs the modules in exactly the array order of
\* testPrecedence: the j-th module it runs is the j-th entry of the array, so
\* each position is run at most once and position i before position i+1,
\* whatever the priorities in moduleSettings are; when it resolves, every
\* entry has been run.
C1_ArrayOrder ==
  /\ \A j \in 1..Len(moduleCalls) :
        /\ moduleCalls[j].pos = j
        /\ j <= Len(manifest.testPrecedence)
        /\ moduleCalls[j].file = manifest.testPrecedence[j]
  /\ allModules = "resolved" => Len(moduleCalls) = Len(manifest.testPrecedence)

\* C1 witness: two modules ran although the second one has the higher priority.
C1_Witness ==
  /\ Len(moduleCalls) >= 2
  /\ moduleCalls[1].invoked /\ moduleCalls[2].invoked
  /\ manifest.moduleSettings[moduleCalls[1].name].priority = "high"
  /\ manifest.moduleSettings[moduleCalls[2].name].priority = "critical"

\* The calls of AuthManager methods made by the last operation, when that
\* operation was ensureAuthenticated.
IsEnsure == Len(calls) > 0 /\ calls[Len(calls)].fn = "ensureAuthenticated"
CallsOf(fn) == { i \in 1..Len(calls) : calls[i].fn = fn }
Returned(fn, ret) == \E i \in CallsOf(fn) : calls[i].ret = ret

\* C2: an ensureAuthenticated in which loadAuthState returned true and the
\* following isAuthenticated(page) returned true never calls performLogin and
\* returns true.
C2_NoLoginWhenSessionValid ==
  (IsEnsure /\ Returned("loadAuthState", "true") /\ Returned("isAuthenticated", "true"))
    => /\ CallsOf("performLogin") = {}
       /\ calls[Len(calls)].ret = "true"

\* C2 witness: ensureAuthenticated went through a loaded and valid session.
C2_Witness ==
  /\ IsEnsure
  /\ Returned("loadAuthState", "true")
  /\ Returned("isAuthenticated", "true")
  /\ authState.isAuthenticated

\* C3: when the entry function of the module at position k throws,
\* executeAllModules rejects with that very error, no module at a position
\* after k is run, and the results recorded before the throw are still in the
\* log, unchanged.
C3_ThrowHalts ==
  moduleError # NoError
    => /\ allModules = "rejected"
       /\ allModulesError = moduleError
       /\ thrown = moduleError
       /\ Len(moduleCalls) = moduleError.pos
       /\ IsPrefix(resultsAtThrow, testResults)

\* C3 witness: a module that is not the last one threw after a result had
\* been recorded, and the run has ended.
C3_Witness ==
  /\ moduleError # NoError
  /\ moduleError.pos < Len(manifest.testPrecedence)
  /\ Len(resultsAtThrow) >= 1
  /\ pc = "exited"

\* C4: when performLogin finds no token or user in sessionStorage after the
\* form was submitted, it returns false and the AuthManager's
\* authState.isAuthenticated is false on return, whatever it was before.
C4_LoginFailureResets ==
  \A i \in CallsOf("performLogin") :
     "noTokens" \in calls[i].steps
       => /\ calls[i].ret = "false"
          /\ ~authState.isAuthenticated
          /\ ~HasTokens(pg.sessionStorage)

\* C4 witness: the credentials were rejected while authState.isAuthenticated
\* was true from an earlier save or load.
C4_Witness ==
  /\ \E i \in CallsOf("performLogin") : "noTokens" \in calls[i].steps
  /\ preAuth
  /\ ~authState.isAuthenticated

\* C5: a recordResult call with status FAILED attempts a screenshot; when the
\* capture throws, recordResult raises nothing, the result it returns has
\* status FAILED and no screenshot path, and that result is appended to the
\* result log.
C5_FailedCaptureSwallowed ==
  (lastRecord.called /\ lastRecord.status = "FAILED")
    => /\ lastRecord.attempted
       /\ lastRecord.captureThrew
            => /\ ~lastRecord.raised
               /\ Len(lastRecord.returned) = 1
               /\ lastRecord.returned[1].status = "FAILED"
               /\ lastRecord.returned[1].screenshot = << >>
               /\ Len(testResults) > Len(lastRecord.logBefore)
               /\ testResults[Len(lastRecord.logBefore) + 1] = lastRecord.returned[1]
               /\ IsPrefix(lastRecord.logBefore, testResults)

\* C5 witness: a FAILED result whose screenshot capture threw.
C5_Witness ==
  /\ lastRecord.called
  /\ lastRecord.status = "FAILED"
  /\ lastRecord.captureThrew

\* C6: when loadAuthState returns false, or the loaded session fails
\* isAuthenticated(page), ensureAuthenticated calls performLogin exactly once
\* and returns what performLogin returned; when loadAuthState returned false,
\* isAuthenticated(page) is not called at all.
C6_SingleLoginFallback ==
  (IsEnsure /\ (Returned("loadAuthState", "false") \/ Returned("isAuthenticated", "false")))
    => /\ Cardinality(CallsOf("performLogin")) = 1
       /\ \A i \in CallsOf("performLogin") : calls[Len(calls)].ret = calls[i].ret
       /\ Returned("loadAuthState", "false") => CallsOf("isAuthenticated") = {}
       /\ Cardinality(CallsOf("loadAuthState")) = 1

\* C6 witness: the snapshot was unusable and the single login failed.
C6_Witness ==
  /\ IsEnsure
  /\ Returned("loadAuthState", "false")
  /\ Returned("performLogin", "false")
  /\ calls[Len(calls)].ret = "false"

\* The last operation was a call of loadAuthState by a fixture or module.
IsLoad == Len(calls) = 1 /\ calls[1].fn = "loadAuthState"

\* C7: loadAuthState never raises; without a snapshot file it returns false
\* and does not touch the page; when reading, parsing or injecting fails it
\* returns false with the in-memory authState reset; it returns true only
\* after every non-empty part of the snapshot was injected and nothing threw.
C7_LoadNeverRaises ==
  IsLoad
    => /\ calls[1].ret \in {"true", "false"}
       /\ authFile = FileAbsent => calls[1].ret = "false" /\ calls[1].steps = {}
       /\ (calls[1].ret = "false" /\ authFile # FileAbsent)
            => "caught" \in calls[1].steps /\ authState = ResetState
       /\ calls[1].ret = "true"
            => /\ ~parseFails(authFile)
               /\ "caught" \notin calls[1].steps
               /\ "page" \in calls[1].steps
               /\ authState.isAuthenticated
               /\ authState.sessionStorage = parse(authFile).sessionStorage
               /\ \A k \in DOMAIN parse(authFile).sessionStorage :
                     /\ k \in DOMAIN pg.sessionStorage
                     /\ pg.sessionStorage[k] = parse(authFile).sessionStorage[k]
               /\ \A k \in DOMAIN parse(authFile).localStorage :
                     /\ k \in DOMAIN pg.localStorage
                     /\ pg.localStorage[k] = parse(authFile).localStorage[k]
               /\ Len(parse(authFile).cookies) > 0 => pg.cookies = parse(authFile).cookies

\* C7 witness: a load failed on an existing snapshot while authState.isAuthenticated
\* was true.
C7_Witness ==
  /\ IsLoad
  /\ calls[1].ret = "false"
  /\ authFile # FileAbsent
  /\ preAuth

\* C8: the flag handed to a module is true exactly when a module named
\* Authentication has completed earlier in the run: false up to and including
\* the first Authentication module, true for every module after it, never
\* false again, and derived from the module names alone.
C8_FlagFollowsAuthenticationModule ==
  /\ \A j \in 1..Len(moduleCalls) :
        moduleCalls[j].flag = (\E i \in 1..(j - 1) : moduleCalls[i].name = "Authentication")
  /\ \A j \in 1..Len(moduleCalls) :
        (moduleCalls[j].flag /\ j < Len(moduleCalls)) => moduleCalls[j + 1].flag

\* C8 witness: three modules were called, Authentication as the second.
C8_Witness ==
  /\ Len(moduleCalls) = 3
  /\ \A j \in 1..3 : moduleCalls[j].invoked
  /\ moduleCalls[1].name # "Authentication"
  /\ moduleCalls[2].name = "Authentication"
  /\ ~moduleCalls[2].flag
  /\ moduleCalls[3].flag

\* C9: the runner opens one browser context and one page per run, never more;
\* at most one of each is open at any time; every module of the run is handed
\* that one page.
C9_SingleSession ==
  /\ contextsOpened <= 1 /\ pagesOpened <= 1
  /\ Cardinality(openContexts) <= 1 /\ Cardinality(openPages) <= 1
  /\ pc \in {"executeAllModules", "loop", "inModule", "getStats"}
       => /\ contextsOpened = 1 /\ pagesOpened = 1
          /\ openContexts = {context} /\ openPages = {page}
  /\ \A j \in Invoked :
        /\ moduleCalls[j].page = page
        /\ page # 0
        /\ contextsOpened = 1 /\ pagesOpened = 1

\* C9 witness: a run with two modules invoked has ended.
C9_Witness ==
  /\ Cardinality(Invoked) >= 2
  /\ pc = "exited"

\* C10 (as stated): the run succeeds if and only if failedTests is 0 at the end.
C10_ExitZeroIffNoFailedTests ==
  pc = "exited" => ((exitCode = 0) <=> (Count(testResults, "FAILED") = 0))

\* C10 (amended): the run succeeds if and only if executeAllModules resolved
\* (no configuration, session or module error was thrown) and failedTests is
\* 0 at the end; so a successful run has no FAILED entry.
C10_ExitZeroIffResolvedAndNoFailedTests ==
  /\ pc = "exited"
       => ((exitCode = 0) <=> (allModules = "resolved" /\ Count(testResults, "FAILED") = 0))
  /\ pc = "exited" => ((testStatus = "passed") <=> (exitCode = 0))
  /\ (pc = "exited" /\ allModules = "resolved")
       => Len(stats) = 1 /\ stats[1].failedTests = Count(testResults, "FAILED")

\* C10 witness: a run that recorded a result ended with exit code 0.
C10_Witness ==
  /\ pc = "exited"
  /\ exitCode = 0
  /\ Len(testResults) >= 1

\* A non-empty "token" entry; a non-empty "token" or "refreshToken" entry; a
\* user identity in the user field or in sessionStorage.user.
TokenEntry(s) ==
  s.sessionStorage # << >> /\ Truthy(s.sessionStorage[1], "token")

AnyTokenEntry(s) ==
  s.sessionStorage # << >>
    /\ (Truthy(s.sessionStorage[1], "token") \/ Truthy(s.sessionStorage[1], "refreshToken"))

UserResolvable(s) ==
  \/ s.user[1] = "object"
  \/ s.user[1] = "string" /\ s.user[2] # ""
  \/ s.sessionStorage # << >> /\ Truthy(s.sessionStorage[1], "user")

Validated == sharedCall.fn = "validateSharedAuthState"

\* C11 (as stated): validateSharedAuthState returns true if and only if the
\* state has isAuthenticated true, a non-empty token entry in sessionStorage
\* and a resolvable user identity.
C11_ValidateReturnsTrueIff ==
  Validated
    => (sharedCall.ret = JsBool(TRUE)
          <=> /\ sharedAuthState # << >>
              /\ sharedAuthState[1].isAuthenticated = JsBool(TRUE)
              /\ TokenEntry(sharedAuthState[1])
              /\ UserResolvable(sharedAuthState[1]))

\* C11 (amended): the value validateSharedAuthState returns is truthy if and
\* only if the state has isAuthenticated true, a non-empty token or
\* refreshToken entry in sessionStorage and a resolvable user identity; it is
\* the last operand of the && chain that was evaluated, so a valid state
\* yields the user identity and not the boolean true; a state with
\* isAuthenticated true and empty sessionStorage yields a falsy value.
C11_ValidateTruthyIff ==
  /\ Validated
       => (ToBoolean(sharedCall.ret)
             <=> /\ sharedAuthState # << >>
                 /\ sharedAuthState[1].isAuthenticated = JsBool(TRUE)
                 /\ AnyTokenEntry(sharedAuthState[1])
                 /\ UserResolvable(sharedAuthState[1]))
  /\ (Validated /\ ToBoolean(sharedCall.ret))
       => sharedCall.ret \in { sharedAuthState[1].user,
                               Get(sharedAuthState[1].sessionStorage[1], "user") }
  /\ (Validated /\ sharedAuthState # << >>
        /\ sharedAuthState[1].sessionStorage \in {<< >>, <<EmptyMap>>})
       => ~ToBoolean(sharedCall.ret)

\* C11 witness: a state with the flag, a token and a user was validated, and
\* the value returned is truthy without being the boolean true.
C11_Witness ==
  /\ Validated
  /\ sharedAuthState # << >>
  /\ sharedAuthState[1].isAuthenticated = JsBool(TRUE)
  /\ TokenEntry(sharedAuthState[1])
  /\ ToBoolean(sharedCall.ret)
  /\ sharedCall.ret # JsBool(TRUE)

\* C12 (as stated): in every reachable state an AuthState (AuthManager.authState
\* or global.sharedAuthState) with isAuthenticated true holds a non-empty
\* authentication token entry in its sessionStorage.
C12_AuthenticatedImpliesToken ==
  /\ authState.isAuthenticated
       => (Truthy(authState.sessionStorage, "token")
             \/ Truthy(authState.sessionStorage, "refreshToken"))
  /\ (sharedAuthState # << >> /\ ToBoolean(sharedAuthState[1].isAuthenticated))
       => AnyTokenEntry(sharedAuthState[1])

\* The last operation was a saveAuthState that wrote the snapshot.
JustSaved ==
  /\ Len(calls) = 1
  /\ calls[1].fn = "saveAuthState"
  /\ calls[1].ret = "data"

\* C13 (as stated): for an AuthState with non-empty cookies and storage maps,
\* the AuthState loadAuthState rebuilds from the snapshot saveAuthState wrote
\* equals the AuthState saveAuthState left in memory, timestamp included.
C13_RoundTrip ==
  [][ ( /\ JustSaved
        /\ authState.cookies # << >>
        /\ DOMAIN authState.localStorage # {}
        /\ DOMAIN authState.sessionStorage # {}
        /\ Len(calls') = 1
        /\ calls'[1].fn = "loadAuthState"
        /\ calls'[1].ret = "true" )
      => authState' = authState ]_vars

\* C14 (as stated): a configuration error (manifest missing or malformed, or
\* a listed module file missing) aborts the run before any context or page
\* is opened and before any module is executed.
C14_ConfigErrorBeforeSession ==
  thrown.kind \in {"ConfigNotFound", "ConfigParse", "ModuleFileNotFound"}
    => /\ contextsOpened = 0
       /\ pagesOpened = 0
       /\ Invoked = {}

\* C15 (as stated): a module whose file exports no entry function is fatal:
\* the run aborts with an error at that module, no later module is executed,
\* and the flag is not raised on its account.
C15_MissingExportFatal ==
  \A j \in 1..Len(moduleCalls) :
     ~moduleCalls[j].invoked
       => /\ thrown # NoError
          /\ allModules = "rejected"
          /\ allModulesError.pos = j
          /\ Len(moduleCalls) = j
          /\ isAuthenticated = moduleCalls[j].flag

\* The rule of the spec for dependencies: every module named in the
\* dependencies of the i-th module appears before position i.
DependenciesMet(c) ==
  \A i \in 1..Len(c.testPrecedence) :
     LET deps == c.moduleSettings[extractModuleName(c.testPrecedence[i])].dependencies
     IN \A d \in 1..Len(deps) :
          \E j \in 1..(i - 1) : extractModuleName(c.testPrecedence[j]) = deps[d]

\* C16 (as stated): a manifest in which a module depends on a module that
\* does not appear earlier in testPrecedence is rejected as a configuration
\* error, and no module of it is ever executed.
C16_UnmetDependencyRejected ==
  ~DependenciesMet(manifest)
    => /\ Invoked = {}
       /\ allModules # "resolved"

\* The test files of a profile, as the orchestrator's showExecutionPlan
\* selects them.
profileTestFiles(c, profile) ==
  IF ~c.executionProfiles[profile].includeAll
    THEN c.executionProfiles[profile].testPrecedence
    ELSE c.testPrecedence

\* C17 (as stated): under a profile with its own testPrecedence the modules
\* executeAllModules invokes are that profile's testPrecedence, in order;
\* under an includeAll profile they are the top-level testPrecedence.
C17_ProfileSelectsModules ==
  allModules = "resolved"
    => [j \in 1..Len(moduleCalls) |-> moduleCalls[j].file]
         = profileTestFiles(manifest, executionProfile)

\* C18: when one of saveAuthState's page calls (cookies, the two evaluates,
\* url) throws, the call ends by throwing and has written nothing: the
\* snapshot file is as it was and, for a direct call, so is the in-memory
\* authState.  A saveAuthState that never reached the file system is exactly
\* one whose page call threw.
C18_SaveFailureWritesNothing ==
  [][ \A i \in 1..Len(calls') :
        (calls'[i].fn = "saveAuthState" /\ "fs" \notin calls'[i].steps)
          => /\ calls'[i].ret = "threw"
             /\ authFile' = authFile
             /\ Len(calls') = 1 => authState' = authState ]_vars

\* A direct saveAuthState failed on the page while a snapshot was on disk and
\* the manager was authenticated.
C18_Witness ==
  /\ Len(calls) = 1
  /\ calls[1].fn = "saveAuthState"
  /\ calls[1].ret = "threw"
  /\ "fs" \notin calls[1].steps
  /\ authFile[1] = "json"
  /\ authState.isAuthenticated

\* close() was called on the page or on the context and the handle is still
\* open: that close threw.
CloseThrew ==
  \/ (<<"page", page>> \in closeAttempts /\ page \in openPages)
  \/ (<<"context", context>> \in closeAttempts /\ context \in openContexts)

\* C19: cleanup never raises.  Once the finally block has run, the error the
\* test surfaces is the error of the try block, whatever the two close calls
\* did: the error executeAllModules rejected with when it rejected, the failed
\* expectation or none when it resolved; the test passes exactly when the try
\* block raised nothing.
C19_CleanupKeepsError ==
  pc \in {"done", "exited"}
    => /\ allModules = "rejected"
            => thrown = allModulesError /\ thrown # NoError
       /\ allModules = "resolved"
            => thrown = IF Count(testResults, "FAILED") # 0
                          THEN Err("ExpectFailed", 0) ELSE NoError
       /\ thrown.kind # "CloseFailed"
       /\ (testStatus = "passed") <=> (thrown = NoError)

\* executeAllModules rejected, a close call threw during cleanup, and the run
\* still surfaced the error of executeAllModules.
C19_Witness ==
  /\ pc = "exited"
  /\ allModules = "rejected"
  /\ CloseThrew
  /\ thrown = allModulesError

\* C20: within one run the value a module finds in sharedModuleData under a
\* key is the value most recently written under it by a module of this run
\* (last-writer-wins): the runner hands every module the same map and never
\* writes, clears or replaces it, so the map is empty until a module writes.
C20_LastWriterWins ==
  /\ moduleData = lastWritten
  /\ (\A j \in 1..Len(moduleCalls) : ~moduleCalls[j].invoked)
        => moduleData = [k \in DataKeys |-> Null]

\* A module that is not the writer runs after the Organisation module and
\* finds the organisation that module selected.
C20_Witness ==
  /\ pc = "inModule"
  /\ Len(moduleCalls) >= 2
  /\ moduleCalls[Len(moduleCalls)].name # "Organisation"
  /\ moduleCalls[Len(moduleCalls)].invoked
  /\ moduleData["selectedOrganisation"] \in DataValues

\* C21: whenever a live validation fails, the cached AuthState is reset: when
\* AuthManager.isAuthenticated has returned false, authState.isAuthenticated
\* is false.
C21_FailedValidationResets ==
  (Len(calls) = 1 /\ calls[1].fn = "isAuthenticated" /\ calls[1].ret = "false")
    => ~authState.isAuthenticated

\* C22: after performLogin has returned false no authenticated state remains
\* cached: authState is reset, and a loadAuthState that follows does not
\* return true with authState.isAuthenticated from a snapshot written before
\* the failed login.
C22_NoAuthAfterFailedLogin ==
  [][ ( /\ calls # << >>
        /\ calls[Len(calls)].fn = "performLogin"
        /\ calls[Len(calls)].ret = "false" )
      => /\ ~authState.isAuthenticated
         /\ ~( /\ Len(calls') = 1
               /\ calls'[1].fn = "loadAuthState"
               /\ calls'[1].ret = "true"
               /\ authState'.isAuthenticated ) ]_vars

C24_BothClosesAttempted ==
  pc \in {"done", "exited"}
    => /\ page # 0 => <<"page", page>> \in closeAttempts
       /\ context # 0 => <<"context", context>> \in closeAttempts

\* C25: at most one module entry function is in progress at any time: the
\* module in progress is the one called last, every module called before it
\* has settled, and no module is called after the promise of one rejected.
C25_OneModuleAtATime ==
  /\ Cardinality(running) <= 1
  /\ running # {} =>
       /\ moduleCalls # << >>
       /\ running = {moduleCalls[Len(moduleCalls)].pos}
       /\ moduleError = NoError
  /\ moduleError # NoError =>
       \A j \in 1..Len(moduleCalls) : moduleCalls[j].pos <= moduleError.pos

\* The second module is in progress after the first one was called and
\* resolved.
C25_Witness ==
  /\ pc = "inModule"
  /\ Len(moduleCalls) = 2
  /\ moduleCalls[1].invoked
  /\ running = {2}

\* C26: the result log is append-only: whatever TestRunner operation runs
\* (recordResult, logStep, getStats with groupResultsByModule, cleanup), the
\* log before the step is a prefix of the log after it, so no entry already
\* in the log is changed, moved or removed.
C26_LogAppendOnly ==
  [][ IsPrefix(testResults, testResults') ]_vars

\* Two results are in the log, the second from a call whose screenshot was
\* taken, and the statistics were read after both.
C26_Witness ==
  /\ Len(testResults) = 2
  /\ testResults[2].screenshot # << >>
  /\ stats = <<getStats>>
  /\ currentStep > testResults[1].step

\* C30: results are in the log in the order in which recordResult was
\* called, also when a module does not await recordResult: the call numbers
\* of the entries increase along the log.
C30_LogInCallOrder ==
  \A i \in 1..Len(logOrder) : \A j \in 1..Len(logOrder) :
     i < j => logOrder[i] < logOrder[j]

\* The priority determinePriority gave the test of a result.
CriticalFailure(r) == r.status = "FAILED" /\ determinePriority(r.test) <= 2

\* C27: in DynamicTestOrchestrator.executeTests, once a test of priority 1 or
\* 2 has failed, execution stops: no test of the same phase or of a later
\* phase is executed after it, so its result is the last one.
C27_CriticalFailureStops ==
  \A i \in 1..Len(results) : CriticalFailure(results[i]) => i = Len(results)

\* C28: executeTests with mode "individual" runs each test file of the
\* selected profile on its own, in the profile's order; with bail it stops at
\* the first failing file and fails, without bail it attempts every file and
\* does not fail.
C28_IndividualRunsEachFile ==
  ( /\ cliPc \in {"exit", "exited"}
    /\ options # << >>
    /\ orchConfig # << >> )
  => ( (options[1].mode = "individual" /\ ~options[1].dryRun)
       => \E failing \in SUBSET (1..MaxModules) :
            LET r == executeIndividualTests(
                       profileTestFiles(orchConfig[1], options[1].profile),
                       options[1].bail, failing)
            IN launched = r.launched /\ cliError = r.error )

\* C29: on every return of ensureAuthenticated the returned boolean equals
\* authState.isAuthenticated, whatever loadAuthState, isAuthenticated,
\* performLogin and saveAuthState did.
C29_EnsureReturnsAuthFlag ==
  IsEnsure
    => /\ calls[Len(calls)].ret \in {"true", "false"}
       /\ (calls[Len(calls)].ret = "true") <=> authState.isAuthenticated

\* The snapshot was loaded (which sets the flag), the live check and then
\* the login failed: ensureAuthenticated returned false with the flag reset.
C29_Witness ==
  /\ IsEnsure
  /\ Returned("loadAuthState", "true")
  /\ Returned("isAuthenticated", "false")
  /\ Returned("performLogin", "false")
  /\ calls[Len(calls)].ret = "false"
  /\ ~authState.isAuthenticated

====
